---- MODULE Spec2Model ----
(***************************************************************************)
(* Device connection core of schoolbox-backend: the websocket Hub          *)
(* (WebsocketHandler), its connections, the registration and               *)
(* authentication flows, the vote flow and the heartbeat kill, as          *)
(* goroutines that interleave at the mutex operations of the Go code.      *)
(*                                                                         *)
(* Threads: one read loop R(c) and one heartbeat loop H(c) per connection  *)
(* slot c, and the admin request handlers A(a).  A Go sync.RWMutex keeps   *)
(* no owner: Lock blocks while it is held, Unlock of a held mutex releases *)
(* it whoever locked it, and Unlock of a mutex that is not write-locked is *)
(* the runtime's "fatal error: sync: Unlock of unlocked RWMutex", which    *)
(* ends the process (crashed).                                             *)
(***************************************************************************)
EXTENDS Integers, Sequences, FiniteSets, TLC

\* ------------------------------------------------------------- bounds
MaxConns == 2
MaxAdmins == 2
MaxFrames == 2
MaxDevices == 2
MaxKills == 1
NumPins == 1
NumTokens == 2
NumNonces == 2
EnrollConns == 1
FrameConns == 1
MaxUsers == 2
MaxSessions == 2
HbConns == 1
SessConns == 1
RelinkAdmins == 2
MaxGetters == 2
MaxResets == 2
MaxLoads == 3
\* Heartbeat.Delay, Heartbeat.Interval and Heartbeat.KillDelay of the configuration,
\* in ticks of the model's clock
Delay == 1
Interval == 2
KillDelay == 3

Conns == 0 .. (MaxConns - 1)
Admins == 1 .. MaxAdmins
ConnIds == 0 .. (MaxConns - 1)
DeviceIds == 1 .. MaxDevices
Users == 1 .. MaxUsers
SessionIds == 1 .. MaxSessions
Getters == 1 .. MaxGetters
\* rand.Intn(9000) + 1000 draws from 1000..9999; the model draws from these
PinBase == 1000
PinChoices == PinBase .. (PinBase + NumPins - 1)
\* generateSecureToken / generateNonce draw at random; the model draws from these
Tokens == 1 .. NumTokens
Nonces == 1 .. NumNonces

\* a nil *uint, and no connection
Nil == 0 - 1
NoConn == 0 - 1

RT(c) == <<"R", c>>
HT(c) == <<"H", c>>
AT(a) == <<"A", a>>
Threads == {RT(c) : c \in Conns} \cup {HT(c) : c \in Conns} \cup {AT(a) : a \in Admins}

\* ------------------------------------------------------------- Go maps
MapGet(f, k) == IF k \in DOMAIN f THEN f[k] ELSE 0
MapPut(f, k, v) == [x \in (DOMAIN f) \cup {k} |-> IF x = k THEN v ELSE f[x]]
MapDel(f, k) == [x \in (DOMAIN f) \ {k} |-> f[x]]
EmptyMap == [x \in {} |-> 0]

\* ------------------------------------------------------------- frames
\* inbound frame: command c, data kind k ("absent", "str", "num"), number n in
\* tenths (15 is the JSON number 1.5), string s as a sequence of characters
Frame(c, k, n, s) == [c |-> c, k |-> k, n |-> n, s |-> s]
NoFrame == Frame("-", "absent", 0, <<>>)

SigInputs == {<<>>, <<"1">>, <<"1", "a">>, <<"1", "A">>, <<"1", "b">>,
              <<"2", "a">>, <<"2", "b">>, <<"1", "g">>}

FramesIn ==
    {Frame("", "absent", 0, <<>>), Frame("bogus", "absent", 0, <<>>),
     Frame("ping", "absent", 0, <<>>), Frame("pong", "absent", 0, <<>>),
     Frame("reg_start", "absent", 0, <<>>)}
    \cup {Frame("auth_start", "absent", 0, <<>>), Frame("auth_start", "str", 0, <<"1">>)}
    \cup {Frame("auth_start", "num", n, <<>>) : n \in {-10, 0, 10, 15, 20, 30}}
    \cup {Frame("auth_validate", "absent", 0, <<>>), Frame("auth_validate", "num", 10, <<>>)}
    \cup {Frame("auth_validate", "str", 0, s) : s \in SigInputs}
    \cup {Frame("session_vote", "absent", 0, <<>>), Frame("session_vote", "str", 0, <<"3">>)}
    \cup {Frame("session_vote", "num", n, <<>>) : n \in {0, 10, 25, 30, 50, 60}}

\* outbound frame as json.Marshal writes it: websocketMessage {c, d} or
\* websocketErrorMessage {e, info}; both tag their fields omitempty, so a field
\* holding its zero value is left out of the envelope (hasE says e is present)
Msg(c, a, b) == [c |-> c, hasE |-> FALSE, e |-> 0, info |-> FALSE, a |-> a, b |-> b]
ErrMsg(code) == [c |-> "", hasE |-> code # 0, e |-> code, info |-> TRUE, a |-> 0, b |-> 0]
NoMsg == [c |-> "-", hasE |-> FALSE, e |-> 0, info |-> FALSE, a |-> 0, b |-> 0]
\* what one step writes to a websocket: the connection and the frame
Send(c, msg) == [to |-> c, m |-> msg]
NoSend == [to |-> NoConn, m |-> NoMsg]

\* ------------------------------------------------------------- flow data
NoFlow == [t |-> "none", pin |-> 0, targetID |-> 0, nonce |-> 0, sessionID |-> 0]
RegFlow(p) == [t |-> "reg", pin |-> p, targetID |-> 0, nonce |-> 0, sessionID |-> 0]
AuthFlow(d, n) == [t |-> "auth", pin |-> 0, targetID |-> d, nonce |-> n, sessionID |-> 0]
SessionFlow(s) == [t |-> "session", pin |-> 0, targetID |-> 0, nonce |-> 0, sessionID |-> s]

\* ------------------------------------------------------------- environment
\* the names of the tick period: the one loadConfig reads and the documented one
EnvNames == {"HEARBEAT_CHECK_INTERVAL", "HEARTBEAT_CHECK_INTERVAL"}
\* values of an environment variable: unset, a string time.ParseDuration accepts
\* ("5s") and one it refuses for its missing unit ("5")
EnvValues == {"", "5s", "5"}

VARIABLES
    connections,      \* Hub: connection id -> connection (slot)
    nextID,           \* Hub: next connection id
    connectedDevices, \* Hub: device id -> connection id
    registrationPins, \* Hub: pin -> connection id
    hubW,             \* Hub mutex is write-locked
    connectionID,     \* connection field
    state,            \* connection field: 0 none, 1 registering, 2 authenticating, 3 authenticated, 4 in session
    stateFlow,        \* connection field
    deviceID,         \* connection field, Nil when unbound
    connMu,           \* connection mutex is write-locked
    hbCancel,         \* connection field hearbeat_cancel is non-nil (its context is live)
    wsOpen,           \* the websocket of the connection is open
    sent,             \* the frame the last step wrote to a websocket, NoSend if none
    frame,            \* read loop: the frame being handled, where the run records it
    nrecv,            \* read loop: frames read so far
    pinL,             \* read loop: local variable pin of registrationFlow
    pc,               \* position of every thread
    tgt,              \* thread inside close(): the connection being closed
    ret,              \* thread inside close(): where it continues afterwards
    aPin, aDev, aConn, res,  \* admin handler: registerWithPin arguments, looked-up connection, result
    devices,          \* store: device id -> token
    votes,            \* store: session id -> the five counters
    crashed,          \* the process died of a fatal runtime error
    hubR,             \* Hub mutex: read locks held by calls that returned without RUnlock
    sessions,         \* store: session id -> [user, device, stopped]
    activeSession,    \* store: device id -> active_session_id, Nil when null
    questions,        \* store: the question rows (the texts)
    sessionsByUser,   \* SessionManager: user id -> session id
    sessionsByDevice, \* SessionManager: device id -> session id
    aUser, aSess,     \* admin handler: the user of PostSession, the session of the call
    age,              \* time.Since(conn.latestMessage), kept up to KillDelay
    heartbeat_age,    \* time.Since(conn.latestHeartbeat), kept up to Interval
    pingsSent,        \* connection field
    pongsReceived,    \* connection field
    sincePing,        \* time since the last ping was written to the websocket, kept up to Interval
    aOld,             \* history: the connection bound to the device when a relink replaced its token
    env,              \* the environment: variable name -> value, "" when unset
    configs,          \* the Config objects loadConfig has made, in order
    instance,         \* package config: the index in configs of *instance, 0 for nil
    onceDone,         \* package config: once.done
    onceM,            \* package config: once.m is locked
    epoch,            \* resets (Reload, ForceReload) so far
    resetBy,          \* what began the present epoch
    clean,            \* no Get call was in progress when the present epoch began
    loads,            \* loadConfig calls in the present epoch
    gpc,              \* position of every caller of Get
    got,              \* caller of Get: the instance its last call returned
    gEpoch, gEnd      \* caller of Get: the epoch in which its last call began, returned

hubVars == <<connections, nextID, connectedDevices, registrationPins, hubW>>
connVars == <<connectionID, state, stateFlow, deviceID, connMu, hbCancel, wsOpen>>
readVars == <<frame, nrecv, pinL>>
thrVars == <<pc, tgt, ret>>
admVars == <<aPin, aDev, aConn, res, aOld>>
dbVars == <<devices, votes>>
sessVars == <<hubR, sessions, activeSession, questions, sessionsByUser, sessionsByDevice,
              aUser, aSess>>
hbVars == <<age, heartbeat_age, pingsSent, pongsReceived, sincePing>>
cfgVars == <<env, configs, instance, onceDone, onceM, epoch, resetBy, clean, loads, gpc, got,
            gEpoch, gEnd>>
vars == <<hubVars, connVars, readVars, thrVars, admVars, dbVars, sent, crashed, sessVars,
          hbVars, cfgVars>>

\* ------------------------------------------------------------- Init
\* NewWebsocketHandler and NewSessionManager: empty maps, nextID 0.  The store is
\* durable: it holds device 1 from an earlier run of the server.  A connection is
\* made with latestMessage now and latestHeartbeat the zero time.
Init ==
    /\ connections = EmptyMap
    /\ nextID = 0
    /\ connectedDevices = EmptyMap
    /\ registrationPins = EmptyMap
    /\ hubW = FALSE
    /\ connectionID = [c \in Conns |-> 0]
    /\ state = [c \in Conns |-> 0]
    /\ stateFlow = [c \in Conns |-> NoFlow]
    /\ deviceID = [c \in Conns |-> Nil]
    /\ connMu = [c \in Conns |-> FALSE]
    /\ hbCancel = [c \in Conns |-> FALSE]
    /\ wsOpen = [c \in Conns |-> FALSE]
    /\ sent = NoSend
    /\ frame = [c \in Conns |-> NoFrame]
    /\ nrecv = [c \in Conns |-> 0]
    /\ pinL = [c \in Conns |-> 0]
    /\ pc = [t \in Threads |-> IF t[1] = "H" THEN "off" ELSE "idle"]
    /\ tgt = [t \in Threads |-> NoConn]
    /\ ret = [t \in Threads |-> "-"]
    /\ aPin = [a \in Admins |-> 0]
    /\ aDev = [a \in Admins |-> Nil]
    /\ aConn = [a \in Admins |-> NoConn]
    /\ aOld = [a \in Admins |-> NoConn]
    /\ res = [a \in Admins |-> "-"]
    /\ devices = [d \in {1} |-> 1]
    /\ votes = EmptyMap
    /\ crashed = FALSE
    /\ hubR = 0
    /\ sessions = EmptyMap
    /\ activeSession = [d \in {1} |-> Nil]
    /\ questions = {}
    /\ sessionsByUser = EmptyMap
    /\ sessionsByDevice = EmptyMap
    /\ aUser = [a \in Admins |-> 0]
    /\ aSess = [a \in Admins |-> 0]
    /\ age = [c \in Conns |-> 0]
    /\ heartbeat_age = [c \in Conns |-> Interval]
    /\ pingsSent = [c \in Conns |-> 0]
    /\ pongsReceived = [c \in Conns |-> 0]
    /\ sincePing = [c \in Conns |-> Interval]
    /\ env = [n \in EnvNames |-> ""]
    /\ configs = <<>>
    /\ instance = 0
    /\ onceDone = FALSE
    /\ onceM = FALSE
    /\ epoch = 0
    /\ resetBy = "start"
    /\ clean = TRUE
    /\ loads = 0
    /\ gpc = [g \in Getters |-> "idle"]
    /\ got = [g \in Getters |-> 0]
    /\ gEpoch = [g \in Getters |-> 0]
    /\ gEnd = [g \in Getters |-> 0]

\* ------------------------------------------------------------- codec helpers
\* encoding/hex: value of one character, 16 for a character that is no hex digit
HexVal(ch) ==
    CASE ch = "0" -> 0 [] ch = "1" -> 1 [] ch = "2" -> 2 [] ch = "3" -> 3
      [] ch = "4" -> 4 [] ch = "5" -> 5 [] ch = "6" -> 6 [] ch = "7" -> 7
      [] ch = "8" -> 8 [] ch = "9" -> 9
      [] ch \in {"a", "A"} -> 10 [] ch \in {"b", "B"} -> 11 [] ch \in {"c", "C"} -> 12
      [] ch \in {"d", "D"} -> 13 [] ch \in {"e", "E"} -> 14 [] ch \in {"f", "F"} -> 15
      [] OTHER -> 16

\* hex.DecodeString(message.Signature) returns no error
HexDecodeOK(s) ==
    /\ Len(s) % 2 = 0
    /\ \A i \in 1 .. Len(s) : HexVal(s[i]) < 16

\* the bytes hex.DecodeString returns when it returns no error
HexBytes(s) == [i \in 1 .. (Len(s) \div 2) |-> 16 * HexVal(s[2 * i - 1]) + HexVal(s[2 * i])]

\* hmac.New(sha256.New, token) over the nonce: a keyed digest, one byte wide here,
\* different for every (token, nonce) of the model
ExpectedMAC(token, nonce) == <<16 * token + 9 + nonce>>

\* hmac.Equal(decodedSignature, expectedMAC)
SignatureMatches(s, token, nonce) == HexBytes(s) = ExpectedMAC(token, nonce)

\* toWebsocketAuthStartMessage: [ok, code, id]
toWebsocketAuthStartMessage(m) ==
    IF m.c # "auth_start" THEN [ok |-> FALSE, code |-> -1, id |-> 0]
    ELSE IF m.k = "absent" THEN [ok |-> FALSE, code |-> 0, id |-> 0]
    ELSE IF m.k = "num"
         THEN IF m.n < 0 \/ m.n % 10 # 0
              THEN [ok |-> FALSE, code |-> 0, id |-> 0]
              ELSE [ok |-> TRUE, code |-> 0, id |-> m.n \div 10]
    ELSE [ok |-> FALSE, code |-> 0, id |-> 0]

\* toWebsocketAuthValidateMessage: [ok, code, sig]
toWebsocketAuthValidateMessage(m) ==
    IF m.c # "auth_validate" THEN [ok |-> FALSE, code |-> -1, sig |-> <<>>]
    ELSE IF m.k = "absent" THEN [ok |-> FALSE, code |-> 0, sig |-> <<>>]
    ELSE IF m.k = "str" THEN [ok |-> TRUE, code |-> 0, sig |-> m.s]
    ELSE [ok |-> FALSE, code |-> 0, sig |-> <<>>]

\* toSessionVoteMessage: [ok, code, vote]
toSessionVoteMessage(m) ==
    IF m.c # "session_vote" THEN [ok |-> FALSE, code |-> -1, vote |-> 0]
    ELSE IF m.k = "absent" THEN [ok |-> FALSE, code |-> 0, vote |-> 0]
    ELSE IF m.k = "num"
         THEN IF m.n < 10 \/ m.n > 50 \/ m.n % 10 # 0
              THEN [ok |-> FALSE, code |-> 0, vote |-> 0]
              ELSE [ok |-> TRUE, code |-> 0, vote |-> m.n \div 10]
    ELSE [ok |-> FALSE, code |-> 0, vote |-> 0]

\* UpdateColumn("A<v>_count", A<v>_count + 1) on the session row, a uint16 column
VoteUpdate(vt, sid, v) ==
    IF sid \in DOMAIN vt THEN [vt EXCEPT ![sid][v] = (@ + 1) % 65536] ELSE vt

\* ------------------------------------------------------------- mutex
\* h.mu.Lock() can return: no writer and no reader holds the mutex
HubFree == ~hubW /\ hubR = 0
\* h.mu.RLock() can return: no writer holds the mutex
HubReadable == ~hubW
\* h.mu.Unlock() returns; otherwise it is the fatal "Unlock of unlocked RWMutex"
HubUnlockOK == hubW

Set1(f, k, v) == [f EXCEPT ![k] = v]

\* ------------------------------------------------------------- read loop
\* InitialiseWebsocket up to addConnection's conn.mu.Lock(): the upgrade made the
\* connection object, conn.mu.Lock() on it cannot block; slots are taken in order
Upgrade(c) ==
    /\ ~crashed
    /\ UNCHANGED cfgVars
    /\ age' = Set1(age, c, 0)
    /\ UNCHANGED <<sessVars, heartbeat_age, pingsSent, pongsReceived, sincePing>>
    /\ pc[RT(c)] = "idle"
    /\ (IF c = 0 THEN TRUE ELSE pc[RT(c - 1)] # "idle")
    /\ wsOpen' = Set1(wsOpen, c, TRUE)
    /\ connMu' = Set1(connMu, c, TRUE)
    /\ pc' = Set1(pc, RT(c), "ac_lock")
    /\ sent' = NoSend
    /\ UNCHANGED <<hubVars, connectionID, state, stateFlow, deviceID, hbCancel, readVars,
                   tgt, ret, admVars, dbVars, crashed>>

\* addConnection: h.mu.Lock(), requested with conn.mu held
AddConnLock(c) ==
    /\ ~crashed
    /\ UNCHANGED cfgVars
    /\ UNCHANGED <<sessVars, hbVars>>
    /\ pc[RT(c)] = "ac_lock"
    /\ HubFree
    /\ hubW' = TRUE
    /\ pc' = Set1(pc, RT(c), "ac_body")
    /\ sent' = NoSend
    /\ UNCHANGED <<connections, nextID, connectedDevices, registrationPins, connVars,
                   readVars, tgt, ret, admVars, dbVars, crashed>>

\* variant of addConnection that hands out the number of registered connections
\* as the id
AddConnBodyCounts(c) ==
    /\ ~crashed
    /\ UNCHANGED cfgVars
    /\ UNCHANGED <<sessVars, hbVars>>
    /\ pc[RT(c)] = "ac_body"
    /\ connectionID' = Set1(connectionID, c, Cardinality(DOMAIN connections))
    /\ connMu' = Set1(connMu, c, FALSE)
    /\ connections' = MapPut(connections, Cardinality(DOMAIN connections), c)
    /\ nextID' = nextID + 1
    /\ IF HubUnlockOK
       THEN /\ hubW' = FALSE
            /\ hbCancel' = Set1(hbCancel, c, TRUE)
            /\ pc' = [pc EXCEPT ![RT(c)] = "read", ![HT(c)] = "run"]
            /\ crashed' = FALSE
       ELSE /\ crashed' = TRUE
            /\ UNCHANGED <<hubW, hbCancel, pc>>
    /\ sent' = NoSend
    /\ UNCHANGED <<connectedDevices, registrationPins, state, stateFlow, deviceID, wsOpen,
                   readVars, tgt, ret, admVars, dbVars>>

\* addConnection: the id is nextID, then nextID is incremented; h.mu.Unlock();
\* then startHeartbeatMonitor and the read loop
AddConnBody(c) ==
    /\ ~crashed
    /\ UNCHANGED cfgVars
    /\ UNCHANGED <<sessVars, hbVars>>
    /\ pc[RT(c)] = "ac_body"
    /\ connectionID' = Set1(connectionID, c, nextID)
    /\ connMu' = Set1(connMu, c, FALSE)
    /\ connections' = MapPut(connections, nextID, c)
    /\ nextID' = nextID + 1
    /\ IF HubUnlockOK
       THEN /\ hubW' = FALSE
            /\ hbCancel' = Set1(hbCancel, c, TRUE)
            /\ pc' = [pc EXCEPT ![RT(c)] = "read", ![HT(c)] = "run"]
            /\ crashed' = FALSE
       ELSE /\ crashed' = TRUE
            /\ UNCHANGED <<hubW, hbCancel, pc>>
    /\ sent' = NoSend
    /\ UNCHANGED <<connectedDevices, registrationPins, state, stateFlow, deviceID, wsOpen,
                   readVars, tgt, ret, admVars, dbVars>>

\* ws.ReadMessage() returns a frame
Receive(c) ==
    /\ ~crashed
    /\ UNCHANGED cfgVars
    /\ UNCHANGED <<sessVars, hbVars>>
    /\ pc[RT(c)] = "read"
    /\ wsOpen[c]
    /\ nrecv[c] < MaxFrames
    /\ nrecv' = Set1(nrecv, c, nrecv[c] + 1)
    /\ frame' = Set1(frame, c, NoFrame)
    /\ pc' = Set1(pc, RT(c), "got")
    /\ sent' = NoSend
    /\ UNCHANGED <<hubVars, connVars, pinL, tgt, ret, admVars, dbVars, crashed>>

\* ws.ReadMessage() returns an error: the peer sent a close frame (the close
\* handler runs conn.close() and the deferred conn.close() follows: "again"),
\* the transport broke, or another thread closed the websocket (the deferred
\* conn.close() alone)
ReadFails(c) ==
    /\ ~crashed
    /\ UNCHANGED cfgVars
    /\ UNCHANGED <<sessVars, hbVars>>
    /\ pc[RT(c)] = "read"
    /\ \E graceful \in (IF wsOpen[c] THEN BOOLEAN ELSE {FALSE}) :
          ret' = Set1(ret, RT(c), IF graceful THEN "again" ELSE "done")
    /\ wsOpen' = Set1(wsOpen, c, FALSE)
    /\ tgt' = Set1(tgt, RT(c), c)
    /\ pc' = Set1(pc, RT(c), "cl_hb")
    /\ sent' = NoSend
    /\ UNCHANGED <<hubVars, connectionID, state, stateFlow, deviceID, connMu, hbCancel,
                   readVars, admVars, dbVars, crashed>>

\* the effect of one pass of the read loop body on connection c
Eff(c, st, fl, dv, mu, snd, closes, p, tg, rt, vt, pn) ==
    /\ state' = Set1(state, c, st)
    /\ stateFlow' = Set1(stateFlow, c, fl)
    /\ deviceID' = Set1(deviceID, c, dv)
    /\ connMu' = Set1(connMu, c, mu)
    /\ sent' = snd
    /\ wsOpen' = [x \in Conns |-> IF x \in closes THEN FALSE ELSE wsOpen[x]]
    /\ pc' = Set1(pc, RT(c), p)
    /\ tgt' = Set1(tgt, RT(c), tg)
    /\ ret' = Set1(ret, RT(c), rt)
    /\ votes' = vt
    /\ pinL' = Set1(pinL, c, pn)
    /\ UNCHANGED <<hubVars, connectionID, hbCancel, nrecv, admVars, devices, crashed>>

\* a reply whose send error ends the loop (the deferred close follows)
ReplyOrBreak(c, msg) ==
    IF wsOpen[c]
    THEN Eff(c, state[c], stateFlow[c], deviceID[c], FALSE, Send(c, msg), {}, "read",
             NoConn, "-", votes, 0)
    ELSE Eff(c, state[c], stateFlow[c], deviceID[c], FALSE, Send(c, msg), {}, "cl_hb",
             c, "done", votes, 0)

\* a reply, the loop goes on
Reply(c, st, fl, msg) ==
    Eff(c, st, fl, deviceID[c], FALSE, Send(c, msg), {}, "read", NoConn, "-", votes, 0)

\* an internal error -1, conn.close(), and the returned error breaks the loop
FatalClose(c) ==
    Eff(c, state[c], stateFlow[c], deviceID[c], FALSE, Send(c, ErrMsg(-1)), {c}, "cl_hb",
        c, "again", votes, 0)

\* registrationFlow up to conn.handler.mu.Lock()
RegStart(c, pin) ==
    IF state[c] # 0
    THEN Reply(c, state[c], stateFlow[c], ErrMsg(0))
    ELSE Eff(c, 1, RegFlow(pin), deviceID[c], FALSE, NoSend, {}, "rf_lock", NoConn, "-",
             votes, pin)

\* authenticationFlow, case "auth_start"
AuthStart(c, m, nonce) ==
    LET parsed == toWebsocketAuthStartMessage(m) IN
    IF state[c] # 0 THEN Reply(c, state[c], stateFlow[c], ErrMsg(0))
    ELSE IF ~parsed.ok THEN Reply(c, state[c], stateFlow[c], ErrMsg(parsed.code))
    ELSE IF parsed.id \notin DOMAIN devices THEN Reply(c, 2, stateFlow[c], ErrMsg(-1))
    ELSE Reply(c, 2, AuthFlow(parsed.id, nonce), Msg("auth_nonce", nonce, 0))

\* authenticationFlow, case "auth_validate", up to the kick
AuthValidate(c, m) ==
    LET parsed == toWebsocketAuthValidateMessage(m)
        flowData == stateFlow[c]
        old == MapGet(connectedDevices, flowData.targetID)
    IN
    IF state[c] # 2 THEN Reply(c, state[c], stateFlow[c], ErrMsg(0))
    ELSE IF ~parsed.ok THEN Reply(c, state[c], stateFlow[c], ErrMsg(parsed.code))
    ELSE IF flowData.t # "auth" THEN FatalClose(c)
    ELSE IF flowData.targetID \notin DOMAIN devices THEN Reply(c, 0, NoFlow, ErrMsg(-1))
    ELSE IF ~HexDecodeOK(parsed.sig) THEN Reply(c, 0, NoFlow, ErrMsg(3))
    ELSE IF ~SignatureMatches(parsed.sig, devices[flowData.targetID], flowData.nonce)
         THEN Reply(c, 0, NoFlow, ErrMsg(3))
    \* conn.mu.Lock(); state 3; the flow data is dropped; the device is bound
    ELSE IF old = 0
         THEN Eff(c, 3, NoFlow, flowData.targetID, TRUE, NoSend, {}, "av_pub", NoConn, "-",
                  votes, 0)
    ELSE IF old \notin DOMAIN connections
         \* oldConn is nil: the panic unwinds into the deferred conn.close()
         THEN Eff(c, 3, NoFlow, flowData.targetID, TRUE, NoSend, {c}, "cl_hb", c, "done",
                  votes, 0)
    \* error 4 to the old connection and oldConn.close()
    ELSE Eff(c, 3, NoFlow, flowData.targetID, TRUE, Send(connections[old], ErrMsg(4)),
             {connections[old]}, "cl_hb", connections[old], "av_pub", votes, 0)

\* sessionFlow, case "session_vote"
SessionVote(c, m) ==
    LET parsed == toSessionVoteMessage(m)
        flowData == stateFlow[c]
    IN
    IF state[c] # 4 THEN Reply(c, state[c], stateFlow[c], ErrMsg(0))
    ELSE IF ~parsed.ok THEN Reply(c, state[c], stateFlow[c], ErrMsg(parsed.code))
    ELSE IF flowData.t # "session" THEN FatalClose(c)
    ELSE Eff(c, state[c], stateFlow[c], deviceID[c], FALSE, NoSend, {}, "read", NoConn, "-",
             VoteUpdate(votes, flowData.sessionID, parsed.vote), 0)

\* the read loop body: conn.mu.Lock() and latestMessage = now for every frame, then
\* the dispatch on the frame m (a pong counts in pongsReceived); rec says whether
\* the run records m in frame
ProcessIn(c, rec) ==
    /\ ~crashed
    /\ UNCHANGED cfgVars
    /\ pc[RT(c)] = "got"
    /\ ~connMu[c]
    /\ age' = Set1(age, c, 0)
    /\ UNCHANGED <<sessVars, heartbeat_age, pingsSent, sincePing>>
    /\ \E m \in FramesIn, pin \in PinChoices, nonce \in Nonces :
         /\ frame' = Set1(frame, c, IF rec THEN m ELSE NoFrame)
         /\ pongsReceived' = IF m.c = "pong" THEN Set1(pongsReceived, c, pongsReceived[c] + 1)
                              ELSE pongsReceived
         /\ CASE m.c = "" -> ReplyOrBreak(c, ErrMsg(0))
              [] m.c = "ping" -> ReplyOrBreak(c, Msg("pong", 0, 0))
              [] m.c = "pong" -> Eff(c, state[c], stateFlow[c], deviceID[c], FALSE, NoSend,
                                     {}, "read", NoConn, "-", votes, 0)
              [] m.c = "reg_start" -> RegStart(c, pin)
              [] m.c = "auth_start" -> AuthStart(c, m, nonce)
              [] m.c = "auth_validate" -> AuthValidate(c, m)
              [] m.c = "session_vote" -> SessionVote(c, m)
              [] OTHER -> ReplyOrBreak(c, ErrMsg(0))

Process(c) == ProcessIn(c, FALSE)
ProcessRec(c) == ProcessIn(c, TRUE)

\* registrationFlow: conn.handler.mu.Lock()
RegLock(c) ==
    /\ ~crashed
    /\ UNCHANGED cfgVars
    /\ UNCHANGED <<sessVars, hbVars>>
    /\ pc[RT(c)] = "rf_lock"
    /\ HubFree
    /\ hubW' = TRUE
    /\ pc' = Set1(pc, RT(c), "rf_body")
    /\ sent' = NoSend
    /\ UNCHANGED <<connections, nextID, connectedDevices, registrationPins, connVars,
                   readVars, tgt, ret, admVars, dbVars, crashed>>

\* registrationFlow: the pin is published, h.mu.Unlock(), reg_pin is sent
RegBody(c) ==
    /\ ~crashed
    /\ UNCHANGED cfgVars
    /\ UNCHANGED <<sessVars, hbVars>>
    /\ pc[RT(c)] = "rf_body"
    /\ registrationPins' = MapPut(registrationPins, pinL[c], connectionID[c])
    /\ IF HubUnlockOK
       THEN /\ hubW' = FALSE
            /\ sent' = Send(c, Msg("reg_pin", pinL[c], 0))
            /\ pc' = Set1(pc, RT(c), "read")
            /\ pinL' = Set1(pinL, c, 0)
            /\ crashed' = FALSE
       ELSE /\ crashed' = TRUE
            /\ sent' = NoSend
            /\ UNCHANGED <<hubW, pc, pinL>>
    /\ UNCHANGED <<connections, nextID, connectedDevices, connVars, frame, nrecv, tgt, ret,
                   admVars, dbVars>>

\* authenticationFlow: connectedDevices[deviceID] = connectionID, then
\* conn.handler.mu.Unlock() of a mutex this thread never locked, then auth_ok
AuthPublish(c) ==
    /\ ~crashed
    /\ UNCHANGED cfgVars
    /\ UNCHANGED <<sessVars, hbVars>>
    /\ pc[RT(c)] = "av_pub"
    /\ connectedDevices' = MapPut(connectedDevices, deviceID[c], connectionID[c])
    /\ IF HubUnlockOK
       THEN /\ hubW' = FALSE
            /\ sent' = Send(c, Msg("auth_ok", 0, 0))
            /\ pc' = Set1(pc, RT(c), "read")
            /\ crashed' = FALSE
       ELSE /\ crashed' = TRUE
            /\ sent' = NoSend
            /\ UNCHANGED <<hubW, pc>>
    /\ UNCHANGED <<connections, nextID, registrationPins, connVars, readVars, tgt, ret,
                   admVars, dbVars>>

\* ------------------------------------------------------------- close()
\* conn.close() of tgt[t] after ws.Close(): stopHeartbeatMonitor takes conn.mu
CloseStopHb(t) ==
    /\ ~crashed
    /\ UNCHANGED cfgVars
    /\ UNCHANGED <<sessVars, hbVars>>
    /\ pc[t] = "cl_hb"
    /\ ~connMu[tgt[t]]
    /\ hbCancel' = Set1(hbCancel, tgt[t], FALSE)
    /\ pc' = Set1(pc, t, "cl_lock")
    /\ sent' = NoSend
    /\ UNCHANGED <<hubVars, connectionID, state, stateFlow, deviceID, connMu, wsOpen,
                   readVars, tgt, ret, admVars, dbVars, crashed>>

\* conn.close(): conn.handler.mu.Lock()
CloseLock(t) ==
    /\ ~crashed
    /\ UNCHANGED cfgVars
    /\ UNCHANGED <<sessVars, hbVars>>
    /\ pc[t] = "cl_lock"
    /\ HubFree
    /\ hubW' = TRUE
    /\ pc' = Set1(pc, t, "cl_body")
    /\ sent' = NoSend
    /\ UNCHANGED <<connections, nextID, connectedDevices, registrationPins, connVars,
                   readVars, tgt, ret, admVars, dbVars, crashed>>

\* the maps after close() of connection x: its id, its device's entry and the
\* pin of its registration flow data are deleted
ConnectionsAfterClose(x) == MapDel(connections, connectionID[x])
DevicesAfterClose(x) ==
    IF deviceID[x] # Nil THEN MapDel(connectedDevices, deviceID[x]) ELSE connectedDevices
PinsAfterClose(x) ==
    IF stateFlow[x].t = "reg" THEN MapDel(registrationPins, stateFlow[x].pin)
    ELSE registrationPins

\* conn.close(): the deletes and the deferred h.mu.Unlock(); the caller goes on
\* at ret[t], "again" being the deferred second conn.close() of the read loop
CloseBody(t) ==
    /\ ~crashed
    /\ UNCHANGED cfgVars
    /\ UNCHANGED <<sessVars, hbVars>>
    /\ pc[t] = "cl_body"
    /\ connections' = ConnectionsAfterClose(tgt[t])
    /\ connectedDevices' = DevicesAfterClose(tgt[t])
    /\ registrationPins' = PinsAfterClose(tgt[t])
    /\ IF HubUnlockOK
       THEN /\ hubW' = FALSE
            /\ pc' = Set1(pc, t, IF ret[t] = "again" THEN "cl_hb" ELSE ret[t])
            /\ tgt' = Set1(tgt, t, IF ret[t] = "again" THEN tgt[t] ELSE NoConn)
            /\ ret' = Set1(ret, t, IF ret[t] = "again" THEN "done" ELSE "-")
            /\ crashed' = FALSE
       ELSE /\ crashed' = TRUE
            /\ UNCHANGED <<hubW, pc, tgt, ret>>
    /\ sent' = NoSend
    /\ UNCHANGED <<nextID, connVars, readVars, admVars, dbVars>>

\* ------------------------------------------------------------- heartbeat
\* a tick of startHeartbeatMonitor that finds the silence at KillDelay or more:
\* error 1 and conn.close()
HeartbeatKill(c) ==
    /\ ~crashed
    /\ UNCHANGED cfgVars
    /\ UNCHANGED <<sessVars, hbVars>>
    /\ pc[HT(c)] = "run"
    /\ Cardinality({x \in Conns : pc[HT(x)] \notin {"off", "run", "hb_ping"}}) < MaxKills
    /\ hbCancel[c]
    /\ ~connMu[c]
    /\ sent' = Send(c, ErrMsg(1))
    /\ wsOpen' = Set1(wsOpen, c, FALSE)
    /\ pc' = Set1(pc, HT(c), "cl_hb")
    /\ tgt' = Set1(tgt, HT(c), c)
    /\ ret' = Set1(ret, HT(c), "done")
    /\ UNCHANGED <<hubVars, connectionID, state, stateFlow, deviceID, connMu, hbCancel,
                   readVars, admVars, dbVars, crashed>>

\* a tick of startHeartbeatMonitor whose reading of the clock finds age at KillDelay
\* or more
HeartbeatTimedKill(c) ==
    /\ age[c] >= KillDelay
    /\ HeartbeatKill(c)

\* a tick of startHeartbeatMonitor whose body runs after a close() of c by another
\* thread cancelled the monitor (the ticker case of the select was taken before
\* ctx.Done() could be): the silence is at KillDelay or more, the write of error 1
\* fails on the closed websocket, and conn.close() is called again
HeartbeatLateKill(c) ==
    /\ ~crashed
    /\ UNCHANGED cfgVars
    /\ UNCHANGED <<sessVars, hbVars>>
    /\ pc[HT(c)] = "run"
    /\ ~hbCancel[c] /\ ~wsOpen[c]
    /\ ~connMu[c]
    /\ age[c] >= KillDelay
    /\ sent' = NoSend
    /\ pc' = Set1(pc, HT(c), "cl_hb")
    /\ tgt' = Set1(tgt, HT(c), c)
    /\ ret' = Set1(ret, HT(c), "done")
    /\ UNCHANGED <<hubVars, connVars, readVars, admVars, dbVars, crashed>>

\* variant of the ping branch that does not look at heartbeat_age
HeartbeatPingEager(c) ==
    /\ ~crashed
    /\ UNCHANGED cfgVars
    /\ pc[HT(c)] = "run"
    /\ hbCancel[c]
    /\ ~connMu[c]
    /\ ~(age[c] >= KillDelay)
    /\ age[c] >= Delay
    /\ sent' = Send(c, Msg("ping", 0, 0))
    /\ sincePing' = Set1(sincePing, c, 0)
    /\ pc' = Set1(pc, HT(c), "hb_ping")
    /\ UNCHANGED <<hubVars, connVars, readVars, tgt, ret, admVars, dbVars, crashed, sessVars,
                   age, heartbeat_age, pingsSent, pongsReceived>>

\* a tick of startHeartbeatMonitor in the ping branch: age below KillDelay, age at
\* Delay or more and heartbeat_age at Interval or more; ping is written
HeartbeatPing(c) ==
    /\ ~crashed
    /\ UNCHANGED cfgVars
    /\ pc[HT(c)] = "run"
    /\ hbCancel[c]
    /\ ~connMu[c]
    /\ ~(age[c] >= KillDelay)
    /\ age[c] >= Delay /\ heartbeat_age[c] >= Interval
    /\ sent' = Send(c, Msg("ping", 0, 0))
    /\ sincePing' = Set1(sincePing, c, 0)
    /\ pc' = Set1(pc, HT(c), "hb_ping")
    /\ UNCHANGED <<hubVars, connVars, readVars, tgt, ret, admVars, dbVars, crashed, sessVars,
                   age, heartbeat_age, pingsSent, pongsReceived>>

\* the ping branch after the write: conn.mu.Lock(), pingsSent++, latestHeartbeat = now
HeartbeatPinged(c) ==
    /\ ~crashed
    /\ UNCHANGED cfgVars
    /\ pc[HT(c)] = "hb_ping"
    /\ ~connMu[c]
    /\ pingsSent' = Set1(pingsSent, c, pingsSent[c] + 1)
    /\ heartbeat_age' = Set1(heartbeat_age, c, 0)
    /\ pc' = Set1(pc, HT(c), "run")
    /\ sent' = NoSend
    /\ UNCHANGED <<hubVars, connVars, readVars, tgt, ret, admVars, dbVars, crashed, sessVars,
                   age, pongsReceived, sincePing>>

\* the clock advances by one: every time.Since of a connection that was made grows
Older(f, c, top) == IF pc[RT(c)] # "idle" /\ f[c] < top THEN f[c] + 1 ELSE f[c]

Tick ==
    /\ ~crashed
    /\ UNCHANGED cfgVars
    /\ \E c \in Conns : pc[RT(c)] # "idle" /\ (age[c] < KillDelay \/ heartbeat_age[c] < Interval
                                               \/ sincePing[c] < Interval)
    /\ age' = [c \in Conns |-> Older(age, c, KillDelay)]
    /\ heartbeat_age' = [c \in Conns |-> Older(heartbeat_age, c, Interval)]
    /\ sincePing' = [c \in Conns |-> Older(sincePing, c, Interval)]
    /\ sent' = NoSend
    /\ UNCHANGED <<hubVars, connVars, readVars, thrVars, admVars, dbVars, crashed, sessVars,
                   pingsSent, pongsReceived>>

\* ------------------------------------------------------------- registerWithPin
\* callers between the lookup and the insert that will create a device row
PendingFresh == Cardinality({a \in Admins : pc[AT(a)] = "rw_lock" /\ aDev[a] = Nil})

\* registerWithPin under h.mu.RLock(): the pin and its connection are looked up.
\* dev is Nil for PostDeviceRegister and a device of the store for PostDeviceRelink
RegisterLookup(a) ==
    /\ ~crashed
    /\ UNCHANGED cfgVars
    /\ UNCHANGED aOld
    /\ UNCHANGED <<sessVars, hbVars>>
    /\ pc[AT(a)] = "idle"
    /\ HubReadable
    /\ \E pin \in PinChoices, dev \in {Nil} \cup DOMAIN devices :
         /\ dev = Nil => Cardinality(DOMAIN devices) + PendingFresh < MaxDevices
         /\ IF pin \notin DOMAIN registrationPins
            THEN /\ res' = Set1(res, a, "notfound")
                 /\ aPin' = Set1(aPin, a, pin)
                 /\ pc' = Set1(pc, AT(a), "done")
                 /\ UNCHANGED <<aDev, aConn>>
            ELSE IF registrationPins[pin] \notin DOMAIN connections
            THEN /\ res' = Set1(res, a, "noconn")
                 /\ aPin' = Set1(aPin, a, pin)
                 /\ pc' = Set1(pc, AT(a), "done")
                 /\ UNCHANGED <<aDev, aConn>>
            ELSE /\ res' = Set1(res, a, "-")
                 /\ aPin' = Set1(aPin, a, pin)
                 /\ aDev' = Set1(aDev, a, dev)
                 /\ aConn' = Set1(aConn, a, connections[registrationPins[pin]])
                 /\ pc' = Set1(pc, AT(a), "rw_lock")
    /\ sent' = NoSend
    /\ UNCHANGED <<hubVars, connVars, readVars, tgt, ret, dbVars, crashed>>

\* the connection that is bound to device dev when registerWithPin replaces the
\* token of dev; NoConn when it makes a new device or none is bound
BoundAtRelink(dev) ==
    IF dev # Nil /\ dev \in DOMAIN connectedDevices
       /\ connectedDevices[dev] \in DOMAIN connections
    THEN connections[connectedDevices[dev]]
    ELSE NoConn

\* registerWithPin: h.mu.Lock(), the token, the device row created or updated,
\* reg_ok sent
RegisterStore(a) ==
    /\ ~crashed
    /\ UNCHANGED cfgVars
    /\ aOld' = Set1(aOld, a, BoundAtRelink(aDev[a]))
    /\ UNCHANGED <<sessVars, hbVars>>
    /\ pc[AT(a)] = "rw_lock"
    /\ HubFree
    /\ hubW' = TRUE
    /\ \E token \in Tokens :
         LET id == IF aDev[a] = Nil THEN Cardinality(DOMAIN devices) + 1 ELSE aDev[a] IN
         /\ devices' = MapPut(devices, id, token)
         /\ aDev' = Set1(aDev, a, id)
         /\ sent' = Send(aConn[a], Msg("reg_ok", id, token))
    /\ pc' = Set1(pc, AT(a), "rw_conn")
    /\ UNCHANGED <<connections, nextID, connectedDevices, registrationPins, connVars,
                   readVars, tgt, ret, aPin, aConn, res, votes, crashed>>

\* variant of the end of registerWithPin that leaves the pin in registrationPins
RegisterFinishKeepsPin(a) ==
    /\ ~crashed
    /\ UNCHANGED cfgVars
    /\ UNCHANGED aOld
    /\ UNCHANGED <<sessVars, hbVars>>
    /\ pc[AT(a)] = "rw_conn"
    /\ ~connMu[aConn[a]]
    /\ state' = Set1(state, aConn[a], 0)
    /\ stateFlow' = Set1(stateFlow, aConn[a], NoFlow)
    /\ registrationPins' = registrationPins
    /\ IF HubUnlockOK
       THEN /\ hubW' = FALSE
            /\ res' = Set1(res, a, "ok")
            /\ pc' = Set1(pc, AT(a), "done")
            /\ aDev' = Set1(aDev, a, Nil)
            /\ aConn' = Set1(aConn, a, NoConn)
            /\ crashed' = FALSE
       ELSE /\ crashed' = TRUE
            /\ UNCHANGED <<hubW, res, pc, aDev, aConn>>
    /\ sent' = NoSend
    /\ UNCHANGED <<aPin, connections, nextID, connectedDevices, connectionID, deviceID, connMu,
                   hbCancel, wsOpen, readVars, tgt, ret, dbVars>>

\* registerWithPin: conn.mu.Lock(), state 0, the flow data dropped, the pin
\* deleted, the deferred h.mu.Unlock()
RegisterFinish(a) ==
    /\ ~crashed
    /\ UNCHANGED cfgVars
    /\ UNCHANGED aOld
    /\ UNCHANGED <<sessVars, hbVars>>
    /\ pc[AT(a)] = "rw_conn"
    /\ ~connMu[aConn[a]]
    /\ state' = Set1(state, aConn[a], 0)
    /\ stateFlow' = Set1(stateFlow, aConn[a], NoFlow)
    /\ registrationPins' = MapDel(registrationPins, aPin[a])
    /\ IF HubUnlockOK
       THEN /\ hubW' = FALSE
            /\ res' = Set1(res, a, "ok")
            /\ pc' = Set1(pc, AT(a), "done")
            /\ aDev' = Set1(aDev, a, Nil)
            /\ aConn' = Set1(aConn, a, NoConn)
            /\ crashed' = FALSE
       ELSE /\ crashed' = TRUE
            /\ UNCHANGED <<hubW, res, pc, aDev, aConn>>
    /\ sent' = NoSend
    /\ UNCHANGED <<aPin, connections, nextID, connectedDevices, connectionID, deviceID, connMu,
                   hbCancel, wsOpen, readVars, tgt, ret, dbVars>>

\* ------------------------------------------------------------- sessions
NoVotes == <<0, 0, 0, 0, 0>>
SessionRow(u, d) == [user |-> u, device |-> d, stopped |-> FALSE]

\* variant of the ErrDeviceNotConnected branch of startSession in which a session
\* row is made all the same
NotConnectedWithRow(a) ==
    /\ res' = Set1(res, a, "notconnected")
    /\ pc' = Set1(pc, AT(a), "done")
    /\ Cardinality(DOMAIN sessions) < MaxSessions
    /\ sessions' = MapPut(sessions, Cardinality(DOMAIN sessions) + 1,
                          SessionRow(aUser[a], aDev[a]))
    /\ votes' = MapPut(votes, Cardinality(DOMAIN sessions) + 1, NoVotes)
    /\ UNCHANGED <<aSess, aConn>>

\* startSession found no entry of connectedDevices for the device: RUnlock and
\* ErrDeviceNotConnected, PostSession answers 503
NotConnected(a) ==
    /\ res' = Set1(res, a, "notconnected")
    /\ pc' = Set1(pc, AT(a), "done")
    /\ UNCHANGED <<sessions, votes, aSess, aConn>>

\* PostSession up to the call of startSession: the user of the request, the
\* check of sessionsByUser under sessionMan.mu.RLock(), the body decoded
PostSession(a) ==
    /\ ~crashed
    /\ UNCHANGED cfgVars
    /\ UNCHANGED aOld
    /\ pc[AT(a)] = "idle"
    /\ \E u \in Users, d \in DeviceIds :
         /\ aUser' = Set1(aUser, a, u)
         /\ aDev' = Set1(aDev, a, d)
         /\ IF MapGet(sessionsByUser, u) # 0
            THEN /\ res' = Set1(res, a, "conflict")
                 /\ pc' = Set1(pc, AT(a), "done")
            ELSE /\ res' = res
                 /\ pc' = Set1(pc, AT(a), "ss_lookup")
    /\ sent' = NoSend
    /\ UNCHANGED <<hubVars, connVars, readVars, tgt, ret, aPin, aConn, dbVars, crashed, hubR,
                   sessions, activeSession, questions, sessionsByUser, sessionsByDevice,
                   aSess, hbVars>>

\* startSession.  At "ss_lookup": the question row, the lookup under h.mu.RLock(),
\* and for a connection that is found the session row.  At "ss_conn":
\* conn.mu.Lock(), state 4 and the flow data, the device's active_session_id,
\* session_start is sent, and PostSession's addSession
startSession(a) ==
    /\ ~crashed
    /\ UNCHANGED cfgVars
    /\ UNCHANGED aOld
    /\ pc[AT(a)] \in {"ss_lookup", "ss_conn"}
    /\ IF pc[AT(a)] = "ss_lookup"
       THEN /\ HubReadable
            /\ questions' = questions \cup {1}
            /\ IF aDev[a] \notin DOMAIN connectedDevices
               THEN NotConnected(a)
               ELSE IF connectedDevices[aDev[a]] \notin DOMAIN connections
               THEN /\ pc' = Set1(pc, AT(a), "ss_stale")
                    /\ UNCHANGED <<res, sessions, votes, aSess, aConn>>
               ELSE LET sid == Cardinality(DOMAIN sessions) + 1 IN
                    /\ sid <= MaxSessions
                    /\ sessions' = MapPut(sessions, sid, SessionRow(aUser[a], aDev[a]))
                    /\ votes' = MapPut(votes, sid, NoVotes)
                    /\ aSess' = Set1(aSess, a, sid)
                    /\ aConn' = Set1(aConn, a, connections[connectedDevices[aDev[a]]])
                    /\ pc' = Set1(pc, AT(a), "ss_conn")
                    /\ res' = res
            /\ sent' = NoSend
            /\ UNCHANGED <<connVars, activeSession, sessionsByUser, sessionsByDevice>>
       ELSE /\ ~connMu[aConn[a]]
            /\ state' = Set1(state, aConn[a], 4)
            /\ stateFlow' = Set1(stateFlow, aConn[a], SessionFlow(aSess[a]))
            /\ IF aDev[a] \in DOMAIN devices
               THEN /\ activeSession' = Set1(activeSession, aDev[a], aSess[a])
                    /\ sent' = Send(aConn[a], Msg("session_start", 1, 0))
                    /\ sessionsByUser' = MapPut(sessionsByUser, aUser[a], aSess[a])
                    /\ sessionsByDevice' = MapPut(sessionsByDevice, aDev[a], aSess[a])
                    /\ res' = Set1(res, a, "ok")
               \* the device row cannot be read: the error is returned as it is
               ELSE /\ sent' = NoSend
                    /\ res' = Set1(res, a, "error")
                    /\ UNCHANGED <<activeSession, sessionsByUser, sessionsByDevice>>
            /\ pc' = Set1(pc, AT(a), "done")
            /\ UNCHANGED <<connectionID, deviceID, connMu, hbCancel, wsOpen, questions,
                           sessions, votes, aSess, aConn>>
    /\ UNCHANGED <<hubVars, readVars, tgt, ret, aPin, aDev, devices, crashed, hubR, aUser,
                   hbVars>>

\* variant that leaves stopped_at alone
NotSealed(sid) == sessions

\* the session row after UpdateColumn("stopped_at", time.Now())
Sealed(sid) == [sessions EXCEPT ![sid].stopped = TRUE]

\* StopSession, reached from PostSessionStopById, up to the call of stopSession:
\* stopped_at is set, the row is loaded (no row: the 500 answer), the device's
\* active_session_id is set to null, removeSession
StopSession(a) ==
    /\ ~crashed
    /\ UNCHANGED cfgVars
    /\ UNCHANGED aOld
    /\ pc[AT(a)] = "idle"
    /\ \E sid \in SessionIds :
         /\ aSess' = Set1(aSess, a, sid)
         /\ IF sid \notin DOMAIN sessions
            THEN /\ res' = Set1(res, a, "nosession")
                 /\ pc' = Set1(pc, AT(a), "done")
                 /\ UNCHANGED <<sessions, activeSession, sessionsByUser, sessionsByDevice,
                                aDev>>
            ELSE /\ sessions' = Sealed(sid)
                 /\ activeSession' =
                        IF sessions[sid].device \in DOMAIN activeSession
                           /\ sessions[sid].device \in DOMAIN devices
                        THEN Set1(activeSession, sessions[sid].device, Nil)
                        ELSE activeSession
                 /\ sessionsByUser' = MapDel(sessionsByUser, sessions[sid].user)
                 /\ sessionsByDevice' = MapDel(sessionsByDevice, sessions[sid].device)
                 /\ aDev' = Set1(aDev, a, sessions[sid].device)
                 /\ pc' = Set1(pc, AT(a), "st_lookup")
                 /\ res' = res
    /\ sent' = NoSend
    /\ UNCHANGED <<hubVars, connVars, readVars, tgt, ret, aPin, aConn, dbVars, crashed, hubR,
                   questions, aUser, hbVars>>

\* stopSession.  At "st_lookup": the lookup under h.mu.RLock(); with no entry of
\* connectedDevices it returns ErrDeviceNotConnected and never calls RUnlock.  At
\* "st_conn": conn.mu.Lock(), state 3, the flow data dropped, session_stop is sent.
\* StopSession ignores the error and PostSessionStopById answers 200
stopSession(a) ==
    /\ ~crashed
    /\ UNCHANGED cfgVars
    /\ UNCHANGED aOld
    /\ pc[AT(a)] \in {"st_lookup", "st_conn"}
    /\ IF pc[AT(a)] = "st_lookup"
       THEN /\ HubReadable
            /\ IF aDev[a] \notin DOMAIN connectedDevices
               THEN /\ hubR' = hubR + 1
                    /\ res' = Set1(res, a, "sealed")
                    /\ pc' = Set1(pc, AT(a), "done")
                    /\ aConn' = aConn
               ELSE IF connectedDevices[aDev[a]] \notin DOMAIN connections
               THEN /\ pc' = Set1(pc, AT(a), "st_stale")
                    /\ UNCHANGED <<hubR, res, aConn>>
               ELSE /\ aConn' = Set1(aConn, a, connections[connectedDevices[aDev[a]]])
                    /\ pc' = Set1(pc, AT(a), "st_conn")
                    /\ UNCHANGED <<hubR, res>>
            /\ sent' = NoSend
            /\ UNCHANGED connVars
       ELSE /\ ~connMu[aConn[a]]
            /\ state' = Set1(state, aConn[a], 3)
            /\ stateFlow' = Set1(stateFlow, aConn[a], NoFlow)
            /\ sent' = Send(aConn[a], Msg("session_stop", 0, 0))
            /\ res' = Set1(res, a, "sealed")
            /\ pc' = Set1(pc, AT(a), "done")
            /\ UNCHANGED <<connectionID, deviceID, connMu, hbCancel, wsOpen, hubR, aConn>>
    /\ UNCHANGED <<hubVars, readVars, tgt, ret, aPin, aDev, dbVars, crashed, sessions,
                   activeSession, questions, sessionsByUser, sessionsByDevice, aUser, aSess,
                   hbVars>>

\* startSession and stopSession when the connection of the entry no longer
\* exists: h.mu.Lock()
StaleLock(a) ==
    /\ ~crashed
    /\ UNCHANGED cfgVars
    /\ pc[AT(a)] \in {"ss_stale", "st_stale"}
    /\ HubFree
    /\ hubW' = TRUE
    /\ pc' = Set1(pc, AT(a), IF pc[AT(a)] = "ss_stale" THEN "ss_del" ELSE "st_del")
    /\ sent' = NoSend
    /\ UNCHANGED <<connections, nextID, connectedDevices, registrationPins, connVars,
                   readVars, tgt, ret, admVars, dbVars, crashed, sessVars, hbVars>>

\* ... delete(h.connectedDevices, deviceID), h.mu.Unlock(), the error is returned:
\* PostSession answers 500, StopSession ignores it
StaleBody(a) ==
    /\ ~crashed
    /\ UNCHANGED cfgVars
    /\ UNCHANGED aOld
    /\ pc[AT(a)] \in {"ss_del", "st_del"}
    /\ connectedDevices' = MapDel(connectedDevices, aDev[a])
    /\ IF HubUnlockOK
       THEN /\ hubW' = FALSE
            /\ res' = Set1(res, a, IF pc[AT(a)] = "ss_del" THEN "error" ELSE "sealed")
            /\ pc' = Set1(pc, AT(a), "done")
            /\ crashed' = FALSE
       ELSE /\ crashed' = TRUE
            /\ UNCHANGED <<hubW, res, pc>>
    /\ sent' = NoSend
    /\ UNCHANGED <<connections, nextID, registrationPins, connVars, readVars, tgt, ret, aPin,
                   aDev, aConn, dbVars, sessVars, hbVars>>

\* ------------------------------------------------------------- DeleteDeviceById
\* DeleteDeviceById up to the delete of the row: the device is loaded (no row:
\* 404), connectedDevices[device.ID] and connections[device.ID] are read without
\* the Hub mutex (a read while a writer is inside its critical section can end in
\* the runtime's fatal "concurrent map read and map write"); the connection found
\* under the key device.ID is sent error 4 and closed
DeleteDeviceById(a) ==
    /\ ~crashed
    /\ UNCHANGED cfgVars
    /\ UNCHANGED aOld
    /\ pc[AT(a)] = "idle"
    /\ \E d \in DeviceIds, fatal \in (IF hubW THEN BOOLEAN ELSE {FALSE}) :
         /\ aDev' = Set1(aDev, a, d)
         /\ IF d \notin DOMAIN devices
            THEN /\ res' = Set1(res, a, "notfound")
                 /\ pc' = Set1(pc, AT(a), "done")
                 /\ sent' = NoSend
                 /\ UNCHANGED <<wsOpen, tgt, ret, crashed>>
            ELSE IF fatal
            THEN /\ crashed' = TRUE
                 /\ sent' = NoSend
                 /\ UNCHANGED <<res, pc, wsOpen, tgt, ret>>
            ELSE IF d \in DOMAIN connectedDevices /\ d \in DOMAIN connections
            THEN /\ sent' = Send(connections[d], ErrMsg(4))
                 /\ wsOpen' = Set1(wsOpen, connections[d], FALSE)
                 /\ pc' = Set1(pc, AT(a), "cl_hb")
                 /\ tgt' = Set1(tgt, AT(a), connections[d])
                 /\ ret' = Set1(ret, AT(a), "dd_row")
                 /\ UNCHANGED <<res, crashed>>
            ELSE /\ pc' = Set1(pc, AT(a), "dd_row")
                 /\ sent' = NoSend
                 /\ UNCHANGED <<res, wsOpen, tgt, ret, crashed>>
    /\ UNCHANGED <<hubVars, connectionID, state, stateFlow, deviceID, connMu, hbCancel,
                   readVars, aPin, aConn, dbVars, sessVars, hbVars>>

\* DeleteDeviceById: the row of the device is deleted, 204
DeleteDeviceRow(a) ==
    /\ ~crashed
    /\ UNCHANGED cfgVars
    /\ UNCHANGED aOld
    /\ pc[AT(a)] = "dd_row"
    /\ devices' = MapDel(devices, aDev[a])
    /\ res' = Set1(res, a, "deleted")
    /\ pc' = Set1(pc, AT(a), "done")
    /\ sent' = NoSend
    /\ UNCHANGED <<hubVars, connVars, readVars, tgt, ret, aPin, aDev, aConn, votes, crashed,
                   sessVars, hbVars>>

\* ------------------------------------------------------------- package config
\* time.ParseDuration on the values of EnvValues, in seconds: a number needs a unit
ParseDuration(v) ==
    CASE v = "1s" -> [ok |-> TRUE, d |-> 1]
      [] v = "5s" -> [ok |-> TRUE, d |-> 5]
      [] OTHER -> [ok |-> FALSE, d |-> 0]

\* getEnvAsDuration: the parsed value of the variable, the fallback when it is
\* unset or does not parse
getEnvAsDuration(e, key, fallback) ==
    IF key \in DOMAIN e /\ e[key] # "" /\ ParseDuration(e[key]).ok
    THEN ParseDuration(e[key]).d
    ELSE fallback

\* loadConfig: the Heartbeat.CheckInterval of the Config it makes, in seconds
loadConfig(e) == [CheckInterval |-> getEnvAsDuration(e, "HEARBEAT_CHECK_INTERVAL", 2)]

\* os.Setenv and os.Unsetenv, as the callers of Reload use them
Setenv(n, v) ==
    /\ ~crashed
    /\ env[n] # v
    /\ env' = Set1(env, n, v)
    /\ sent' = NoSend
    /\ UNCHANGED <<hubVars, connVars, readVars, thrVars, admVars, dbVars, crashed, sessVars,
                   hbVars, configs, instance, onceDone, onceM, epoch, resetBy, clean, loads,
                   gpc, got, gEpoch, gEnd>>

\* no call of Get is in progress
NoGetRunning == \A g \in Getters : gpc[g] \in {"idle", "done"}

\* Get under mu.RLock(): a non-nil instance is returned, otherwise the caller goes
\* on to once.Do
GetBegin(g) ==
    /\ ~crashed
    /\ gpc[g] \in {"idle", "done"}
    /\ gEpoch' = Set1(gEpoch, g, epoch)
    /\ IF instance # 0
       THEN /\ got' = Set1(got, g, instance)
            /\ gEnd' = Set1(gEnd, g, epoch)
            /\ gpc' = Set1(gpc, g, "done")
       ELSE /\ gpc' = Set1(gpc, g, "once")
            /\ UNCHANGED <<got, gEnd>>
    /\ sent' = NoSend
    /\ UNCHANGED <<hubVars, connVars, readVars, thrVars, admVars, dbVars, crashed, sessVars,
                   hbVars, env, configs, instance, onceDone, onceM, epoch, resetBy, clean,
                   loads>>

\* variant of once.Do that runs the function on every call
OnceDoEveryCall(g) ==
    /\ ~crashed
    /\ gpc[g] = "once"
    /\ gpc' = Set1(gpc, g, "slow")
    /\ onceM' = TRUE
    /\ sent' = NoSend
    /\ UNCHANGED <<hubVars, connVars, readVars, thrVars, admVars, dbVars, crashed, sessVars,
                   hbVars, env, configs, instance, onceDone, epoch, resetBy, clean, loads, got,
                   gEpoch, gEnd>>

\* once.Do: with done set the function is skipped; otherwise doSlow takes once.m
OnceDo(g) ==
    /\ ~crashed
    /\ gpc[g] = "once"
    /\ IF onceDone
       THEN /\ gpc' = Set1(gpc, g, "ret")
            /\ onceM' = onceM
       ELSE /\ ~onceM
            /\ onceM' = TRUE
            /\ gpc' = Set1(gpc, g, "slow")
    /\ sent' = NoSend
    /\ UNCHANGED <<hubVars, connVars, readVars, thrVars, admVars, dbVars, crashed, sessVars,
                   hbVars, env, configs, instance, onceDone, epoch, resetBy, clean, loads, got,
                   gEpoch, gEnd>>

\* the function of once.Do: mu.Lock(), instance = loadConfig(), mu.Unlock()
OnceLoad(g) ==
    /\ ~crashed
    /\ gpc[g] = "slow"
    /\ Len(configs) < MaxLoads
    /\ configs' = Append(configs, loadConfig(env))
    /\ instance' = Len(configs) + 1
    /\ loads' = loads + 1
    /\ gpc' = Set1(gpc, g, "stored")
    /\ sent' = NoSend
    /\ UNCHANGED <<hubVars, connVars, readVars, thrVars, admVars, dbVars, crashed, sessVars,
                   hbVars, env, onceDone, onceM, epoch, resetBy, clean, got, gEpoch, gEnd>>

\* the end of doSlow: done is stored and once.m unlocked; unlocking a mutex that
\* Reload has replaced by a fresh one is the fatal "unlock of unlocked mutex"
OnceDone(g) ==
    /\ ~crashed
    /\ gpc[g] = "stored"
    /\ onceDone' = TRUE
    /\ IF onceM
       THEN /\ onceM' = FALSE
            /\ gpc' = Set1(gpc, g, "ret")
            /\ crashed' = FALSE
       ELSE /\ crashed' = TRUE
            /\ UNCHANGED <<onceM, gpc>>
    /\ sent' = NoSend
    /\ UNCHANGED <<hubVars, connVars, readVars, thrVars, admVars, dbVars, sessVars, hbVars,
                   env, configs, instance, epoch, resetBy, clean, loads, got, gEpoch, gEnd>>

\* Get: return instance, read without mu
GetReturn(g) ==
    /\ ~crashed
    /\ gpc[g] = "ret"
    /\ got' = Set1(got, g, instance)
    /\ gEnd' = Set1(gEnd, g, epoch)
    /\ gpc' = Set1(gpc, g, "done")
    /\ sent' = NoSend
    /\ UNCHANGED <<hubVars, connVars, readVars, thrVars, admVars, dbVars, crashed, sessVars,
                   hbVars, env, configs, instance, onceDone, onceM, epoch, resetBy, clean,
                   loads, gEpoch>>

\* Reload under mu.Lock(): once = sync.Once{} and instance = nil
Reload ==
    /\ ~crashed
    /\ epoch < MaxResets
    /\ onceDone' = FALSE
    /\ onceM' = FALSE
    /\ instance' = 0
    /\ epoch' = epoch + 1
    /\ resetBy' = "Reload"
    /\ clean' = NoGetRunning
    /\ loads' = 0
    /\ sent' = NoSend
    /\ UNCHANGED <<hubVars, connVars, readVars, thrVars, admVars, dbVars, crashed, sessVars,
                   hbVars, env, configs, gpc, got, gEpoch, gEnd>>

\* ForceReload under mu.Lock(): instance = loadConfig()
ForceReload ==
    /\ ~crashed
    /\ epoch < MaxResets
    /\ Len(configs) < MaxLoads
    /\ configs' = Append(configs, loadConfig(env))
    /\ instance' = Len(configs) + 1
    /\ epoch' = epoch + 1
    /\ resetBy' = "ForceReload"
    /\ clean' = NoGetRunning
    /\ loads' = 1
    /\ sent' = NoSend
    /\ UNCHANGED <<hubVars, connVars, readVars, thrVars, admVars, dbVars, crashed, sessVars,
                   hbVars, env, onceDone, onceM, gpc, got, gEpoch, gEnd>>

\* ------------------------------------------------------------- specification
\* every thread of the model
Next ==
    \/ \E c \in Conns : Upgrade(c)
    \/ \E c \in Conns : AddConnLock(c)
    \/ \E c \in Conns : AddConnBody(c)
    \/ \E c \in Conns : Receive(c)
    \/ \E c \in Conns : ReadFails(c)
    \/ \E c \in Conns : Process(c)
    \/ \E c \in Conns : RegLock(c)
    \/ \E c \in Conns : RegBody(c)
    \/ \E c \in Conns : AuthPublish(c)
    \/ \E t \in Threads : CloseStopHb(t)
    \/ \E t \in Threads : CloseLock(t)
    \/ \E t \in Threads : CloseBody(t)
    \/ \E c \in Conns : HeartbeatKill(c)
    \/ \E a \in Admins : RegisterLookup(a)
    \/ \E a \in Admins : RegisterStore(a)
    \/ \E a \in Admins : RegisterFinish(a)
    \/ \E a \in Admins : PostSession(a)
    \/ \E a \in Admins : startSession(a)
    \/ \E a \in Admins : StopSession(a)
    \/ \E a \in Admins : stopSession(a)
    \/ \E a \in Admins : StaleLock(a)
    \/ \E a \in Admins : StaleBody(a)
    \/ \E a \in Admins : DeleteDeviceById(a)
    \/ \E a \in Admins : DeleteDeviceRow(a)
    \/ \E c \in Conns : HeartbeatLateKill(c)
    \/ \E c \in Conns : HeartbeatPing(c)
    \/ \E c \in Conns : HeartbeatPinged(c)
    \/ Tick
    \/ \E g \in Getters : GetBegin(g)
    \/ \E g \in Getters : OnceDo(g)
    \/ \E g \in Getters : OnceLoad(g)
    \/ \E g \in Getters : OnceDone(g)
    \/ \E g \in Getters : GetReturn(g)
    \/ Reload
    \/ ForceReload
    \/ \E n \in EnvNames, v \in EnvValues : Setenv(n, v)

Spec == Init /\ [][Next]_vars

\* the devices' side: MaxConns connections with their heartbeats, no admin request
NextDevices ==
    \/ \E c \in Conns : Upgrade(c)
    \/ \E c \in Conns : AddConnLock(c)
    \/ \E c \in Conns : AddConnBody(c)
    \/ \E c \in Conns : Receive(c)
    \/ \E c \in Conns : ReadFails(c)
    \/ \E c \in Conns : Process(c)
    \/ \E c \in Conns : RegLock(c)
    \/ \E c \in Conns : RegBody(c)
    \/ \E c \in Conns : AuthPublish(c)
    \/ \E t \in Threads : CloseStopHb(t)
    \/ \E t \in Threads : CloseLock(t)
    \/ \E t \in Threads : CloseBody(t)
    \/ \E c \in Conns : HeartbeatKill(c)

SpecDevices == Init /\ [][NextDevices]_vars

\* enrollment: EnrollConns connections with their heartbeats and the admin requests
NextEnroll ==
    \/ \E c \in 0 .. (EnrollConns - 1) : Upgrade(c)
    \/ \E c \in 0 .. (EnrollConns - 1) : AddConnLock(c)
    \/ \E c \in Conns : AddConnBody(c)
    \/ \E c \in Conns : Receive(c)
    \/ \E c \in Conns : ReadFails(c)
    \/ \E c \in Conns : Process(c)
    \/ \E c \in Conns : RegLock(c)
    \/ \E c \in Conns : RegBody(c)
    \/ \E c \in Conns : AuthPublish(c)
    \/ \E t \in Threads : CloseStopHb(t)
    \/ \E t \in Threads : CloseLock(t)
    \/ \E t \in Threads : CloseBody(t)
    \/ \E c \in Conns : HeartbeatKill(c)
    \/ \E a \in Admins : RegisterLookup(a)
    \/ \E a \in Admins : RegisterStore(a)
    \/ \E a \in Admins : RegisterFinish(a)

SpecEnroll == Init /\ [][NextEnroll]_vars

\* the frames: FrameConns connections with their heartbeats, every frame handled
\* is recorded
NextFrames ==
    \/ \E c \in 0 .. (FrameConns - 1) : Upgrade(c)
    \/ \E c \in 0 .. (FrameConns - 1) : AddConnLock(c)
    \/ \E c \in Conns : AddConnBody(c)
    \/ \E c \in Conns : Receive(c)
    \/ \E c \in Conns : ReadFails(c)
    \/ \E c \in Conns : ProcessRec(c)
    \/ \E c \in Conns : RegLock(c)
    \/ \E c \in Conns : RegBody(c)
    \/ \E c \in Conns : AuthPublish(c)
    \/ \E t \in Threads : CloseStopHb(t)
    \/ \E t \in Threads : CloseLock(t)
    \/ \E t \in Threads : CloseBody(t)
    \/ \E c \in Conns : HeartbeatKill(c)

SpecFrames == Init /\ [][NextFrames]_vars

\* the heartbeat: HbConns connections, the clock, the monitor's ticks that read it,
\* every frame handled is recorded
NextHeartbeat ==
    \/ \E c \in 0 .. (HbConns - 1) : Upgrade(c)
    \/ \E c \in 0 .. (HbConns - 1) : AddConnLock(c)
    \/ \E c \in Conns : AddConnBody(c)
    \/ \E c \in Conns : Receive(c)
    \/ \E c \in Conns : ReadFails(c)
    \/ \E c \in Conns : ProcessRec(c)
    \/ \E c \in Conns : RegLock(c)
    \/ \E c \in Conns : RegBody(c)
    \/ \E c \in Conns : AuthPublish(c)
    \/ \E t \in Threads : CloseStopHb(t)
    \/ \E t \in Threads : CloseLock(t)
    \/ \E t \in Threads : CloseBody(t)
    \/ \E c \in Conns : HeartbeatTimedKill(c)
    \/ \E c \in Conns : HeartbeatLateKill(c)
    \/ \E c \in Conns : HeartbeatPing(c)
    \/ \E c \in Conns : HeartbeatPinged(c)
    \/ Tick

SpecHeartbeat == Init /\ [][NextHeartbeat]_vars

\* the sessions: the admin requests that start and stop sessions beside MaxConns
\* connections, of which the first SessConns send frames, break and fall silent; the
\* others are opened and stay
NextSessions ==
    \/ \E c \in Conns : Upgrade(c)
    \/ \E c \in Conns : AddConnLock(c)
    \/ \E c \in Conns : AddConnBody(c)
    \/ \E c \in 0 .. (SessConns - 1) : Receive(c)
    \/ \E c \in 0 .. (SessConns - 1) : ReadFails(c)
    \/ \E c \in Conns : Process(c)
    \/ \E c \in Conns : RegLock(c)
    \/ \E c \in Conns : RegBody(c)
    \/ \E c \in Conns : AuthPublish(c)
    \/ \E t \in Threads : CloseStopHb(t)
    \/ \E t \in Threads : CloseLock(t)
    \/ \E t \in Threads : CloseBody(t)
    \/ \E c \in 0 .. (SessConns - 1) : HeartbeatKill(c)
    \/ \E a \in Admins : PostSession(a)
    \/ \E a \in Admins : startSession(a)
    \/ \E a \in Admins : StopSession(a)
    \/ \E a \in Admins : stopSession(a)
    \/ \E a \in Admins : StaleLock(a)
    \/ \E a \in Admins : StaleBody(a)

SpecSessions == Init /\ [][NextSessions]_vars

\* the deletes: the admin requests that delete a device beside MaxConns connections
\* with their heartbeats, of which the first SessConns send frames
NextDelete ==
    \/ \E c \in Conns : Upgrade(c)
    \/ \E c \in Conns : AddConnLock(c)
    \/ \E c \in Conns : AddConnBody(c)
    \/ \E c \in 0 .. (SessConns - 1) : Receive(c)
    \/ \E c \in 0 .. (SessConns - 1) : ReadFails(c)
    \/ \E c \in Conns : Process(c)
    \/ \E c \in Conns : RegLock(c)
    \/ \E c \in Conns : RegBody(c)
    \/ \E c \in Conns : AuthPublish(c)
    \/ \E t \in Threads : CloseStopHb(t)
    \/ \E t \in Threads : CloseLock(t)
    \/ \E t \in Threads : CloseBody(t)
    \/ \E c \in Conns : HeartbeatKill(c)
    \/ \E a \in Admins : DeleteDeviceById(a)
    \/ \E a \in Admins : DeleteDeviceRow(a)

SpecDelete == Init /\ [][NextDelete]_vars

\* the relink: MaxConns connections that send frames, and RelinkAdmins admin
\* requests that register or relink
NextRelink ==
    \/ \E c \in Conns : Upgrade(c)
    \/ \E c \in Conns : AddConnLock(c)
    \/ \E c \in Conns : AddConnBody(c)
    \/ \E c \in Conns : Receive(c)
    \/ \E c \in Conns : Process(c)
    \/ \E c \in Conns : RegLock(c)
    \/ \E c \in Conns : RegBody(c)
    \/ \E c \in Conns : AuthPublish(c)
    \/ \E a \in 1 .. RelinkAdmins : RegisterLookup(a)
    \/ \E a \in 1 .. RelinkAdmins : RegisterStore(a)
    \/ \E a \in 1 .. RelinkAdmins : RegisterFinish(a)

SpecRelink == Init /\ [][NextRelink]_vars

\* package config: MaxGetters callers of Get beside Reload and ForceReload
NextConfig ==
    \/ \E g \in Getters : GetBegin(g)
    \/ \E g \in Getters : OnceDo(g)
    \/ \E g \in Getters : OnceLoad(g)
    \/ \E g \in Getters : OnceDone(g)
    \/ \E g \in Getters : GetReturn(g)
    \/ Reload
    \/ ForceReload
    \/ \E n \in EnvNames, v \in EnvValues : Setenv(n, v)

SpecConfig == Init /\ [][NextConfig]_vars

\* ------------------------------------------------------------- properties
\* connection c is registered: some id of the connections map refers to it
Registered(c) == \E id \in DOMAIN connections : connections[id] = c

\* an error frame of the given code, as the client reads it: { "e": code, "info": ... }
IsErrorFrame(m, code) == m.hasE /\ m.e = code

\* connection c holds its device's entry of connectedDevices
Published(c) ==
    /\ deviceID[c] \in DOMAIN connectedDevices
    /\ connectedDevices[deviceID[c]] = connectionID[c]

\* connection n is inside the kick of connection o (oldConn.close() of the
\* authentication success path)
Kicking(n, o) ==
    /\ pc[RT(n)] \in {"cl_hb", "cl_lock", "cl_body"}
    /\ tgt[RT(n)] = o
    /\ ret[RT(n)] = "av_pub"

\* C1: while the server runs, every device id d that is a key of connectedDevices
\* refers to a connection that is registered in connections, is in state 3 or 4
\* and is bound to d.
C1_ConnectedDevicesRefersToBoundConnection ==
    crashed \/ \A d \in DOMAIN connectedDevices :
        LET id == connectedDevices[d] IN
        /\ id \in DOMAIN connections
        /\ state[connections[id]] \in {3, 4}
        /\ deviceID[connections[id]] = d

\* C2: while the server runs, beside a registered connection that holds its
\* device's entry of connectedDevices in state 3 or 4, no other registered
\* connection is bound to that device in state 3 or 4, whatever the holder's id
\* (0 included); the one moment left out is the other connection still inside
\* its kick of the holder.
C2_OneBoundConnectionPerDevice ==
    crashed \/ \A c1, c2 \in Conns :
        ( /\ c1 # c2
          /\ Registered(c1) /\ Registered(c2)
          /\ state[c1] \in {3, 4} /\ state[c2] \in {3, 4}
          /\ deviceID[c1] # Nil /\ deviceID[c1] = deviceID[c2]
          /\ Published(c1) )
        => Kicking(c2, c1)

\* C3: the step in which connection n succeeds in auth_validate for device D
\* while a registered connection o holds D's entry of connectedDevices in state
\* 3 or 4 sends o an error frame of code 4 and closes its websocket; and the
\* step that completes n's authentication leaves connectedDevices[D] at n's id.
C3_NewAuthenticationKicksOld ==
    [][\A n \in Conns :
         /\ \A o \in Conns \ {n} :
              ( /\ ~crashed
                /\ pc[RT(n)] = "got" /\ state[n] = 2 /\ state'[n] = 3
                /\ Registered(o) /\ state[o] \in {3, 4} /\ deviceID[o] = deviceID'[n]
                /\ Published(o) )
              => ( /\ sent'.to = o /\ IsErrorFrame(sent'.m, 4)
                   /\ ~wsOpen'[o] )
         /\ ( ~crashed /\ pc[RT(n)] = "av_pub" /\ pc'[RT(n)] = "read" )
              => ( /\ deviceID[n] \in DOMAIN connectedDevices'
                   /\ connectedDevices'[deviceID[n]] = connectionID[n] )
      ]_vars

\* C4: a successful auth_validate completes: the step that publishes the
\* connection ends with the server running, the connection in state 3 with no
\* flow data and its device set, auth_ok sent to it, connectedDevices[device]
\* at its id, and its lock released so that its read loop goes on.
C4_AuthValidateCompletes ==
    [][\A c \in Conns :
         ( ~crashed /\ pc[RT(c)] = "av_pub" /\ (pc'[RT(c)] # "av_pub" \/ crashed') )
         => ( /\ ~crashed'
              /\ state'[c] = 3 /\ stateFlow'[c] = NoFlow /\ deviceID'[c] # Nil
              /\ sent'.to = c /\ sent'.m.c = "auth_ok"
              /\ deviceID'[c] \in DOMAIN connectedDevices'
              /\ connectedDevices'[deviceID'[c]] = connectionID[c]
              /\ ~connMu'[c] )
      ]_vars

\* C5: auth_validate handled in state 2 with a signature that is no valid hex,
\* or that differs from the HMAC of the flow's nonce under the device's secret,
\* sends error 3, resets the connection to state 0 with no flow data and no
\* device, leaves connectedDevices alone, and the read loop goes on.
C5_BadSignatureResets ==
    [][\A c \in Conns :
         ( /\ pc[RT(c)] = "got" /\ pc'[RT(c)] # "got"
           /\ frame'[c].c = "auth_validate" /\ frame'[c].k = "str"
           /\ state[c] = 2
           /\ \/ ~HexDecodeOK(frame'[c].s)
              \/ /\ stateFlow[c].t = "auth"
                 /\ stateFlow[c].targetID \in DOMAIN devices
                 /\ ~SignatureMatches(frame'[c].s, devices[stateFlow[c].targetID],
                                      stateFlow[c].nonce) )
         => ( /\ sent'.to = c /\ IsErrorFrame(sent'.m, 3)
              /\ state'[c] = 0 /\ stateFlow'[c] = NoFlow /\ deviceID'[c] = Nil
              /\ connectedDevices' = connectedDevices
              /\ pc'[RT(c)] = "read" )
      ]_vars

\* a session_vote frame whose d.vote is a JSON number equal to an integer in 1..5
LegalVote(m) == m.k = "num" /\ m.n \in {10, 20, 30, 40, 50}

\* C6: while the server runs, every pin p that is a key of registrationPins
\* refers to a connection that is registered in connections, is in state 1 and
\* holds registration flow data with pin p.
C6_PendingPinRefersToRegisteringConnection ==
    crashed \/ \A p \in DOMAIN registrationPins :
        LET id == registrationPins[p] IN
        /\ id \in DOMAIN connections
        /\ state[connections[id]] = 1
        /\ stateFlow[connections[id]] = RegFlow(p)

\* the pin of call a maps to the connection the call looked up, still in state 1
StillRegistering(a) ==
    /\ aPin[a] \in DOMAIN registrationPins
    /\ registrationPins[aPin[a]] \in DOMAIN connections
    /\ connections[registrationPins[aPin[a]]] = aConn[a]
    /\ state[aConn[a]] = 1

C8_OneEnrollmentPerPin ==
    [][\A a \in Admins :
         ( ~crashed /\ pc[AT(a)] = "rw_lock" /\ pc'[AT(a)] = "rw_conn" )
         => StillRegistering(a)
      ]_vars

\* C9: a registerWithPin call whose pin is no key of registrationPins ends with
\* the not-found error and changes no Hub map, no connection and no device
\* row; a call whose pin maps to a connection id that is no key of connections
\* fails and leaves the pin out of registrationPins.
C9_EnrollmentFailures ==
    [][\A a \in Admins :
         /\ ( ~crashed /\ pc[AT(a)] = "idle" /\ pc'[AT(a)] # "idle"
              /\ aPin'[a] \notin DOMAIN registrationPins )
              => ( /\ res'[a] = "notfound"
                   /\ UNCHANGED <<connections, nextID, connectedDevices, registrationPins,
                                  state, stateFlow, deviceID, devices>> )
         /\ ( ~crashed /\ pc[AT(a)] = "idle" /\ pc'[AT(a)] # "idle"
              /\ aPin'[a] \in DOMAIN registrationPins
              /\ registrationPins[aPin'[a]] \notin DOMAIN connections )
              => ( /\ res'[a] \in {"notfound", "noconn"}
                   /\ pc'[AT(a)] = "done"
                   /\ aPin'[a] \notin DOMAIN registrationPins' )
      ]_vars

\* C10: a session_vote frame handled in a state other than 4, or with a vote
\* that is no integer in 1..5, is answered with an error frame of code 0 and
\* changes no counter, nor the connection's state or flow data.
C10_VoteRejectedUnlessLegal ==
    [][\A c \in Conns :
         ( /\ pc[RT(c)] = "got" /\ pc'[RT(c)] # "got"
           /\ frame'[c].c = "session_vote"
           /\ ~(state[c] = 4 /\ LegalVote(frame'[c])) )
         => ( /\ sent'.to = c /\ IsErrorFrame(sent'.m, 0)
              /\ votes' = votes
              /\ state'[c] = state[c] /\ stateFlow'[c] = stateFlow[c] )
      ]_vars

\* the id of connection c is no key of connections, and no entry of
\* connectedDevices or registrationPins holds it, in the state a step leads to
AbsentFromHubNext(c) ==
    /\ connectionID'[c] \notin DOMAIN connections'
    /\ \A d \in DOMAIN connectedDevices' : connectedDevices'[d] # connectionID'[c]
    /\ \A p \in DOMAIN registrationPins' : registrationPins'[p] # connectionID'[c]

\* C17: a heartbeat tick that finds the silence of connection c at KillDelay or
\* more sends c an error frame of code 1 and closes its websocket, and no ping is
\* sent at such a silence; once the close started by that tick has returned, c
\* is absent from connections, connectedDevices and registrationPins.
C17_SilentConnectionIsRemoved ==
    [][\A c \in Conns :
         /\ ( ~crashed /\ pc[HT(c)] = "run" /\ pc'[HT(c)] = "cl_hb" )
              => ( /\ age[c] >= KillDelay
                   /\ sent'.to = c /\ IsErrorFrame(sent'.m, 1)
                   /\ ~wsOpen'[c] )
         /\ ( sent'.to = c /\ sent'.m.c = "ping" ) => age[c] < KillDelay
         /\ ( ~crashed' /\ pc'[HT(c)] = "done" ) => AbsentFromHubNext(c)
      ]_vars

\* the monitor of connection c can take a tick: it runs, it was not cancelled and
\* conn.mu can be read-locked
CanTick(c) == ~crashed /\ pc[HT(c)] = "run" /\ hbCancel[c] /\ ~connMu[c]

\* the condition under which a tick sends a ping
PingDue(c) == age[c] < KillDelay /\ age[c] >= Delay /\ heartbeat_age[c] >= Interval

\* C18: a heartbeat tick sends a ping exactly when silence < KillDelay, silence >=
\* Delay and the time since latestHeartbeat >= Interval; every ping sent is
\* followed by pingsSent + 1 and latestHeartbeat = now; no ping is sent while
\* silence < Delay, and a ping is sent no sooner than Interval after the one
\* before it.
C18_PingExactlyWhenDue ==
    [][\A c \in Conns :
         /\ ( sent'.to = c /\ sent'.m.c = "ping" )
              => ( /\ CanTick(c) /\ PingDue(c)
                   /\ age[c] >= Delay
                   /\ sincePing[c] >= Interval
                   /\ pc'[HT(c)] = "hb_ping" )
         /\ ( CanTick(c) /\ PingDue(c) ) => ENABLED HeartbeatPing(c)
         /\ ( CanTick(c) /\ ~PingDue(c) ) => ~ENABLED HeartbeatPing(c)
         /\ ( pc[HT(c)] = "hb_ping" /\ pc'[HT(c)] # "hb_ping" )
              => ( /\ pingsSent'[c] = pingsSent[c] + 1
                   /\ heartbeat_age'[c] = 0 )
         /\ pingsSent'[c] # pingsSent[c] => pc[HT(c)] = "hb_ping"
      ]_vars

\* C18 witness: a second ping was written, Interval after the first, while the
\* silence is at Delay or more and below KillDelay
C18_Witness ==
    \E c \in Conns :
        /\ pc[HT(c)] = "hb_ping" /\ pingsSent[c] >= 1
        /\ sent = Send(c, Msg("ping", 0, 0))
        /\ age[c] >= Delay /\ age[c] < KillDelay

\* C19: an inbound pong frame adds one to pongsReceived and leaves the silence of
\* the connection as it was (latestMessage is not touched).
C19_PongDoesNotResetSilence ==
    [][\A c \in Conns :
         ( /\ pc[RT(c)] = "got" /\ pc'[RT(c)] # "got"
           /\ frame'[c].c = "pong" )
         => ( /\ pongsReceived'[c] = pongsReceived[c] + 1
              /\ age'[c] = age[c] )
      ]_vars

\* the frame m is not legal in state st: reg_start or auth_start outside 0,
\* auth_validate outside 2, session_vote outside 4, an unknown command, no command
IllegalIn(m, st) ==
    \/ m.c \in {"reg_start", "auth_start"} /\ st # 0
    \/ m.c = "auth_validate" /\ st # 2
    \/ m.c = "session_vote" /\ st # 4
    \/ m.c \notin {"reg_start", "auth_start", "auth_validate", "session_vote", "ping", "pong"}

\* C20: a frame that is not legal in the connection's state is answered with an
\* error frame of code 0 and leaves the connection's state, flow data and device
\* and the three Hub maps unchanged.
C20_IllegalCommandRejected ==
    [][\A c \in Conns :
         ( /\ pc[RT(c)] = "got" /\ pc'[RT(c)] # "got"
           /\ IllegalIn(frame'[c], state[c]) )
         => ( /\ sent'.to = c /\ IsErrorFrame(sent'.m, 0)
              /\ state'[c] = state[c] /\ stateFlow'[c] = stateFlow[c]
              /\ deviceID'[c] = deviceID[c]
              /\ UNCHANGED <<connections, connectedDevices, registrationPins>> )
      ]_vars

\* no connection is in state 4: startSession waits at conn.mu.Lock() for the mutex
\* that authenticationFlow left locked
NeverInSession == \A c \in Conns : state[c] # 4

\* the StopSession call of a has answered 200 with the session
StopReturned(a) == pc[AT(a)] = "done" /\ res[a] = "sealed"

\* the StopSession call of a is past its writes to the store
StopSealed(a) ==
    \/ pc[AT(a)] \in {"st_lookup", "st_conn", "st_stale", "st_del"}
    \/ StopReturned(a)

C14_StopOnDisconnectedKeepsHubUsable ==
    \A a \in Admins :
        StopReturned(a) =>
            /\ sessions[aSess[a]].stopped
            /\ (~hubW => HubFree)

\* the session row s is live: made and not stopped
Live(s) == s \in DOMAIN sessions /\ ~sessions[s].stopped

\* C15: no two live sessions have the same user, and no two have the same device.
C15_OneLiveSessionPerUserAndDevice ==
    \A s1, s2 \in DOMAIN sessions :
        (s1 # s2 /\ Live(s1) /\ Live(s2)) =>
            /\ sessions[s1].user # sessions[s2].user
            /\ sessions[s1].device # sessions[s2].device

\* C16: a startSession whose lookup finds no entry of connectedDevices for the
\* device ends with ErrDeviceNotConnected, makes no session row, adds nothing to
\* sessionsByUser and sessionsByDevice, sends no frame and changes no connection.
C16_StartOnUnconnectedDevice ==
    [][\A a \in Admins :
          (pc[AT(a)] = "ss_lookup" /\ pc'[AT(a)] # "ss_lookup"
           /\ aDev[a] \notin DOMAIN connectedDevices) =>
              /\ pc'[AT(a)] = "done"
              /\ res'[a] = "notconnected"
              /\ sessions' = sessions
              /\ votes' = votes
              /\ sessionsByUser' = sessionsByUser
              /\ sessionsByDevice' = sessionsByDevice
              /\ activeSession' = activeSession
              /\ sent' = NoSend
              /\ connVars' = connVars
              /\ hubVars' = hubVars]_vars

\* C16 witness: a PostSession call was answered 503 for a device that is not connected
C16_Witness ==
    \E a \in Admins :
        /\ pc[AT(a)] = "done"
        /\ res[a] = "notconnected"
        /\ aDev[a] \notin DOMAIN connectedDevices

\* C26: an auth_start frame handled in state 0 leaves the connection in state 2
\* only when its id is a non-negative integer naming a device of the store; in
\* every other case the connection stays in state 0 with no flow data.
C26_AuthStartNeedsKnownDevice ==
    [][\A c \in Conns :
         ( /\ pc[RT(c)] = "got" /\ pc'[RT(c)] # "got"
           /\ frame'[c].c = "auth_start"
           /\ state[c] = 0 )
         => LET parsed == toWebsocketAuthStartMessage(frame'[c]) IN
            IF parsed.ok /\ parsed.id \in DOMAIN devices
            THEN state'[c] = 2 /\ stateFlow'[c].t = "auth"
                 /\ stateFlow'[c].targetID = parsed.id
            ELSE state'[c] = 0 /\ stateFlow'[c] = NoFlow
      ]_vars

\* C27: no two registered connections in state 1 hold the same pin in their flow
\* data, and every registered connection in state 1 whose pin was published is
\* the connection registrationPins gives for that pin.
C27_PinsAreNotReissued ==
    /\ \A c1, c2 \in Conns :
         ( /\ c1 # c2 /\ Registered(c1) /\ Registered(c2)
           /\ state[c1] = 1 /\ state[c2] = 1 )
         => stateFlow[c1].pin # stateFlow[c2].pin
    /\ \A c \in Conns :
         (Registered(c) /\ state[c] = 1 /\ pc[RT(c)] = "read")
         => /\ stateFlow[c].pin \in DOMAIN registrationPins
            /\ registrationPins[stateFlow[c].pin] = connectionID[c]

\* C22: in the state a completed close() of connection x leaves, a second close()
\* of x changes nothing and can run: the id of x is no key of connections, its
\* device no key of connectedDevices, the pin of its registration flow data no key
\* of registrationPins, hearbeat_cancel is nil, and neither conn.mu nor the Hub
\* mutex is held.
C22_CloseIsIdempotent ==
    [][\A t \in Threads :
         (pc[t] = "cl_body" /\ pc'[t] # "cl_body") =>
             LET x == tgt[t] IN
             /\ connectionID'[x] \notin DOMAIN connections'
             /\ (deviceID'[x] # Nil => deviceID'[x] \notin DOMAIN connectedDevices')
             /\ (stateFlow'[x].t = "reg" =>
                     stateFlow'[x].pin \notin DOMAIN registrationPins')
             /\ ~hbCancel'[x]
             /\ ~connMu'[x]
             /\ HubFree'
      ]_vars

\* C21: DeleteDeviceById of device d sends error 4 to the connection whose id is
\* connectedDevices[d] and closes it, and no other connection; when d is no key of
\* connectedDevices (or its connection is gone) it sends nothing and closes nothing.
C21_DeleteClosesTheDevicesConnection ==
    [][\A a \in Admins :
         ( /\ pc[AT(a)] = "idle"
           /\ (pc'[AT(a)] = "dd_row" \/ ret'[AT(a)] = "dd_row") )
         => LET d == aDev'[a] IN
            IF d \in DOMAIN connectedDevices /\ connectedDevices[d] \in DOMAIN connections
            THEN LET x == connections[connectedDevices[d]] IN
                 /\ sent'.to = x /\ IsErrorFrame(sent'.m, 4)
                 /\ ~wsOpen'[x]
                 /\ pc'[AT(a)] = "cl_hb" /\ tgt'[AT(a)] = x
                 /\ \A c \in Conns \ {x} : wsOpen'[c] = wsOpen[c]
            ELSE /\ sent' = NoSend
                 /\ wsOpen' = wsOpen
                 /\ pc'[AT(a)] = "dd_row"
      ]_vars

\* C25: the option HEARTBEAT_CHECK_INTERVAL sets the heartbeat tick period: every
\* Config that is loaded carries the parsed value of that option, and the default
\* of 2 s only when the option is unset or does not parse.
C25_CheckIntervalOptionSetsTick ==
    [][Len(configs') > Len(configs) =>
         LET v == env["HEARTBEAT_CHECK_INTERVAL"]
             o == configs'[Len(configs')]
         IN  IF v # "" /\ ParseDuration(v).ok
             THEN o.CheckInterval = ParseDuration(v).d
             ELSE o.CheckInterval = 2]_vars

\* C24: between two resets every call of Get returns the same, non-nil instance,
\* concurrent calls included, and the configuration is loaded once: stated for
\* the calls that began and returned in the present epoch, an epoch that began
\* while no call of Get was in progress.
InEpoch(g) == gpc[g] = "done" /\ gEpoch[g] = epoch /\ gEnd[g] = epoch
C24_GetReturnsOneInstance ==
    clean =>
        /\ loads <= 1
        /\ \A g \in Getters : InEpoch(g) => got[g] # 0
        /\ \A g, h \in Getters : InEpoch(g) /\ InEpoch(h) => got[g] = got[h]

\* after a Reload two callers that both reached once.Do hold the one instance
\* that a single load made
C24_Witness ==
    /\ clean
    /\ resetBy = "Reload"
    /\ loads = 1
    /\ \A g \in Getters : InEpoch(g) /\ got[g] = instance /\ instance # 0

\* thread t is about to call h.mu.Lock(): in addConnection, close(), registrationFlow,
\* registerWithPin, or the clean-up of a stale connectedDevices entry
HubLockRequested(t) ==
    pc[t] \in {"ac_lock", "cl_lock", "rf_lock", "rw_lock", "ss_stale", "st_stale"}

\* thread t holds the mutex of a connection: the read loop of c inside
\* addConnection, or after the conn.mu.Lock() of a successful auth_validate,
\* through the kick of the old connection up to auth_ok
HoldsConnMu(t) ==
    \E c \in Conns :
        /\ t = RT(c)
        /\ connMu[c]
        /\ (pc[t] \in {"ac_lock", "ac_body", "av_pub"} \/ ret[t] = "av_pub")

\* C23: the Hub mutex is acquired before any Connection mutex: no thread requests
\* the Hub mutex while it holds a Connection mutex.
C23_HubMutexBeforeConnectionMutex ==
    \A t \in Threads : HubLockRequested(t) => ~HoldsConnMu(t)

\* the heartbeat loop of c has entered ws.WriteMessage for a ping and has not
\* taken its next step, conn.mu.Lock(): nothing orders the write before the
\* steps of the other threads
PingInFlight(c) == ~crashed /\ pc[HT(c)] = "hb_ping"

\* C30: at most one thread writes a frame to the websocket of a connection at any
\* time: while the heartbeat loop's write of a ping to c is in flight no other
\* thread writes a frame to c.
C30_OneWriterPerConnection ==
    [][\A c \in Conns : PingInFlight(c) => sent'.to # c]_vars

\* thread t is between an h.mu.Lock() of its own and the h.mu.Unlock() that
\* follows it, and the mutex is still write-locked
HoldsHubW(t) ==
    hubW /\ pc[t] \in {"ac_body", "rf_body", "cl_body", "rw_conn", "ss_del", "st_del"}

\* C31: every mutation of the Hub maps connections, connectedDevices and
\* registrationPins is made by a thread that holds the Hub mutex in write mode.
C31_HubMapsMutatedUnderHubMutex ==
    [][( \/ connections' # connections
         \/ connectedDevices' # connectedDevices
         \/ registrationPins' # registrationPins )
       => \E t \in Threads : HoldsHubW(t) /\ pc'[t] # pc[t]]_vars

\* the 30 seconds of authenticationFlowData.flowTimeout on the scale of the clock
flowTimeout == 1

\* C32: an auth_validate that arrives more than flowTimeout after the flow
\* started is rejected and the connection is reset to NONE, even with a correct
\* signature. The flow of c started no later than the frame before this one, so
\* a silence above flowTimeout means a flow older than flowTimeout.
C32_LateAuthValidateRejected ==
    [][\A c \in Conns :
         ( /\ pc[RT(c)] = "got" /\ pc'[RT(c)] # "got"
           /\ frame'[c].c = "auth_validate"
           /\ state[c] = 2 /\ stateFlow[c].t = "auth"
           /\ age[c] > flowTimeout )
         => ( /\ state'[c] = 0
              /\ stateFlow'[c] = NoFlow
              /\ deviceID'[c] = deviceID[c] )
      ]_vars

\* C33: when a relink of device D completes, the connection that was bound to D
\* when the relink replaced D's token is closed and is no longer the connection
\* of D in connectedDevices.
C33_RelinkKicksBoundConnection ==
    [][\A a \in Admins :
         ( /\ pc[AT(a)] = "rw_conn" /\ pc'[AT(a)] = "done"
           /\ aOld[a] # NoConn )
         => ( /\ ~wsOpen'[aOld[a]]
              /\ ( aDev[a] \in DOMAIN connectedDevices'
                     => connectedDevices'[aDev[a]] # connectionID'[aOld[a]] ) )
      ]_vars

\* the variant of flow data that belongs to state st
FlowOf(st) ==
    CASE st = 1 -> "reg"
      [] st = 2 -> "auth"
      [] st = 4 -> "session"
      [] OTHER -> "none"

\* C34: the flow data of a connection matches its state: registration data
\* exactly in state 1, authentication data exactly in state 2, session data
\* exactly in state 4, none in states 0 and 3; stated for the connections whose
\* read loop waits for a frame.
C34_FlowDataMatchesState ==
    \A c \in Conns : pc[RT(c)] = "read" => stateFlow[c].t = FlowOf(state[c])

\* C35: every error written to a client is an envelope whose field e is present
\* and holds the code of the error, the code 0 of a bad request or an invalid
\* state included.
C35_ErrorEnvelopeCarriesCode ==
    sent.m.info => sent.m.hasE /\ sent.m.e \in {-1, 0, 1, 3, 4}

\* connection c was given its id: addConnection has returned
Given(c) == pc[RT(c)] \notin {"idle", "ac_lock", "ac_body"}

Closed(c) ==
    /\ Given(c) /\ ~wsOpen[c] /\ ~hbCancel[c]
    /\ \A t \in Threads : tgt[t] # c

\* C37: once a close() of connection c has returned, the heartbeat loop of c takes
\* no further step: it writes no ping and no error frame to c and does not call
\* conn.close() again.
C37_HeartbeatStopsAfterClose ==
    [][\A c \in Conns :
         ( Closed(c) /\ pc[HT(c)] = "run" )
         => ( /\ pc'[HT(c)] = "run"
              /\ ~( sent'.to = c /\ (IsErrorFrame(sent'.m, 1) \/ sent'.m.c = "ping") ) )
      ]_vars

\* C38: a close() of connection x removes from connectedDevices and from
\* registrationPins only entries whose value is the id of x: every entry that maps
\* to another connection is left as it was.
C38_CloseRemovesOnlyOwnEntries ==
    [][\A t \in Threads :
         ( pc[t] = "cl_body" /\ pc'[t] # "cl_body" ) =>
             LET x == tgt[t] IN
             /\ \A d \in DOMAIN connectedDevices :
                    connectedDevices[d] # connectionID[x]
                    => ( d \in DOMAIN connectedDevices'
                         /\ connectedDevices'[d] = connectedDevices[d] )
             /\ \A p \in DOMAIN registrationPins :
                    registrationPins[p] # connectionID[x]
                    => ( p \in DOMAIN registrationPins'
                         /\ registrationPins'[p] = registrationPins[p] )
      ]_vars

\* C39: every operation releases exactly the mutexes it took: no step unlocks the
\* Hub mutex for a thread that does not hold it (which either frees the lock of
\* another thread or ends the process with a fatal error), a read loop that is
\* back at waiting for a frame does not hold its connection's mutex, and no call
\* has returned with a read lock of the Hub mutex still held.
C39_OperationsReleaseWhatTheyTook ==
    [][/\ ( hubW /\ ~hubW' ) => \E t \in Threads : HoldsHubW(t) /\ pc'[t] # pc[t]
       /\ crashed' => crashed
       /\ \A c \in Conns : pc'[RT(c)] = "read" => ~connMu'[c]
       /\ hubR' = 0
      ]_vars

====
